---- MODULE Spec2Model ----
(***************************************************************************)
(* A model of the harmonic-analysis core of adisi_main.py:                 *)
(*   - cut_midi_at_16th            (the window extractor),                 *)
(*   - _get_sounding_notes_per_16th (event merge and 16th-grid sampler),   *)
(*   - get_chord_events, is_perfect_cadence, find_cadences,                *)
(*   - save_harmonic_analysis and the batch driver's step after it,        *)
(*   - extract_cut_points and process_cadence_cuts_raw,                    *)
(* of the chord classifier _notes_to_chord of                             *)
(* adisi_utils/get_chords_per_16th.py, and of jsb_json_to_midi of          *)
(* adisi_utils/jsb_json_to_midi.py.                                        *)
(* Each routine is one state machine with its own specification; the       *)
(* variables of the other routines stay at their idle values.              *)
(***************************************************************************)
EXTENDS Integers, Sequences, FiniteSets, TLC

VARIABLES
    \* cut_midi_at_16th
    ticks_per_beat,     \* mid.ticks_per_beat of the input file
    cut_16th_index,     \* the cut_16th_index argument
    track,              \* the messages of the input track iterated so far
    current_time,       \* absolute tick of the last message read
    new_track,          \* the output track
    active_notes,       \* dict (channel, note) -> velocity, in insertion order
    cut_pc,             \* "loop" | "done" (track finalized); "idle" elsewhere
    track_no,           \* index of the input track in mid.tracks
    msgs_before,        \* number of messages of the tracks before it
    new_mid,            \* the output file: ticks_per_beat, number of tracks
    \* _get_sounding_notes_per_16th (ticks_per_beat is shared)
    tracks,             \* mid.tracks, as far as iterated
    abs_time,           \* running absolute tick in the current track
    events,             \* the ('on'|'off', abs_time, note) tuples
    total_16ths,        \* number of 16th positions
    result,             \* one sorted note list per 16th position
    smp_pc,             \* "collect" | "returned"; "idle" elsewhere
    \* find_cadences
    timeline,           \* the parsed {'tick', 'function'} samples of the report
    runs,               \* number of label runs the report was written in
    chord_events,       \* get_chord_events(timeline)
    strong_cadences,
    regular_cadences,
    cad_pc,             \* "input" | "returned"; "idle" elsewhere
    \* _notes_to_chord (adisi_utils/get_chords_per_16th.py)
    notes,              \* the notes argument: a set of MIDI pitches
    pc,                 \* {n % 12 for n in notes}
    bass_pc,            \* min(notes) % 12
    roots,              \* the candidate roots sorted(pc) not tried yet
    root_pc,            \* the candidate root r tried last
    chord,              \* _find_chord_type(r, pc) of the root tried last
    label,              \* the value returned by _notes_to_chord
    chd_pc,             \* "call" | "loop" | "returned" | "read"; "idle" elsewhere
    is_major,           \* _is_major_chord of the label, once read downstream
    \* the harmonic check of is_perfect_cadence on one function label
    lbl_func,           \* the label, as prev_func and as curr_func
    dominant,           \* is_dominant, once computed
    tonic,              \* is_tonic, once computed
    checked,            \* which of the two have been computed
    \* save_harmonic_analysis and run_process_on_all_midi_files_in_directory
    file_type,          \* "MIDI" | "MusicXML"
    key_mode,           \* key.mode: "major" | "minor"
    sounding,           \* per 16th, the pitches sounding ({}: none)
    rep_tick,           \* the tick of the writing loop
    report,             \* the file output_filename: exists, lines
    rep_exit,           \* the statement save_harmonic_analysis left by
    rep_pc,             \* "load" | "validate" | "write" | "returned" | "driven"
    \* process_cadence_cuts_raw
    analysis,           \* the file analysis_text_path
    cadence_ticks,      \* extract_cut_points(analysis_text_path)
    out_dir,            \* whether os.makedirs(output_dir) has been called
    out_files,          \* the cut ticks of the files written to output_dir
    raw_pc,             \* "call" | "cutting" | "returned"; "idle" elsewhere
    \* jsb_json_to_midi (adisi_utils/jsb_json_to_midi.py)
    sequence,           \* the sequence of time steps, each a set of notes
    resolution,         \* "quarter" | "8th" | "16th"
    jsb_step,           \* number of time steps iterated
    jsb_active_notes,   \* active_notes
    jsb_current_time,   \* current_time: the delta of the next message
    jsb_track,          \* the track of the file written
    jsb_pc              \* "steps" | "saved"; "idle" elsewhere

cutVars == <<cut_16th_index, track, current_time, new_track, active_notes, cut_pc,
             track_no, msgs_before, new_mid>>
smpVars == <<tracks, abs_time, events, total_16ths, result, smp_pc>>

cadVars == <<timeline, runs, chord_events, strong_cadences, regular_cadences,
             cad_pc>>

chdVars == <<notes, pc, bass_pc, roots, root_pc, chord, label, chd_pc, is_major>>

lblVars == <<lbl_func, dominant, tonic, checked>>

repVars == <<file_type, key_mode, sounding, rep_tick, report, rep_exit, rep_pc>>

rawVars == <<analysis, cadence_ticks, out_dir, out_files, raw_pc>>

\* the variables of the routines around the MIDI and cadence core
extVars == <<chdVars, lblVars, repVars, rawVars>>

jsbVars == <<sequence, resolution, jsb_step, jsb_active_notes, jsb_current_time,
             jsb_track, jsb_pc>>

vars == <<ticks_per_beat, cutVars, smpVars, cadVars, extVars, jsbVars>>

JsbIdle ==
    /\ sequence = <<>>
    /\ resolution = "16th"
    /\ jsb_step = 0
    /\ jsb_active_notes = {}
    /\ jsb_current_time = 0
    /\ jsb_track = <<>>
    /\ jsb_pc = "idle"

-----------------------------------------------------------------------------
(* Bounds of the model.                                                    *)

\* longest input track given to cut_midi_at_16th, and most messages, over all
\* tracks, of its input file
MaxTrackLen == 4
\* largest cut_16th_index
MaxCutIndex == 2
\* most tracks of a file given to cut_midi_at_16th
MaxCutTracks == 2
\* most messages, over all tracks, of a file given to the sampler
MaxMsgs == 4
\* most tracks of a file given to the sampler
MaxTracks == 2
\* most label runs a report given to find_cadences is written in
MaxRuns == 3

\* ticks-per-beat values of the input files: 4 makes a 16th one tick, 6 makes
\* ticks_per_16th = 1.5 (int() truncates, round() rounds thirds), 8 makes a
\* 16th two ticks (and last_tick / ticks_per_16th a half for an odd last_tick)
CutTicksPerBeat == {0, 4, 6}
SmpTicksPerBeat == {4, 6, 8}
\* delta times carried by the messages
Deltas == {0, 1}

-----------------------------------------------------------------------------
(* mido messages: a note message has type, channel, note, velocity and a   *)
(* delta time; a meta message has type and time only (the other fields are *)
(* held at 0 here).                                                        *)

Message(ty, ch, n, v, t) ==
    [type |-> ty, channel |-> ch, note |-> n, velocity |-> v, time |-> t]

MetaMessage(ty, t) == Message(ty, 0, 0, 0, t)

\* msg.type == 'note_on' and msg.velocity > 0
IsNoteOn(msg) == msg.type = "note_on" /\ msg.velocity > 0

\* (msg.type == 'note_on' and msg.velocity == 0) or msg.type == 'note_off'
IsNoteOff(msg) ==
    (msg.type = "note_on" /\ msg.velocity = 0) \/ msg.type = "note_off"

\* the messages an input track of the cut model is made of
CutMessages ==
    {Message("note_on", ch, 60, 64, t) : ch \in {0, 1}, t \in Deltas}
    \cup {Message("note_off", 0, 60, 0, t) : t \in Deltas}
    \cup {Message("note_on", 1, 60, 0, t) : t \in Deltas}
    \cup {MetaMessage("set_tempo", t) : t \in Deltas}
    \cup {MetaMessage("end_of_track", t) : t \in Deltas}

\* the input track has given its own end_of_track, which is its last message
TrackEnded(tr) == tr # <<>> /\ tr[Len(tr)].type = "end_of_track"

-----------------------------------------------------------------------------
(* cut_midi_at_16th                                                        *)

\* cut_threshold_ticks = int(cut_16th_index * (mid.ticks_per_beat / 4.0))
CutThresholdTicks(tpb, idx) == (idx * tpb) \div 4

cut_threshold_ticks == CutThresholdTicks(ticks_per_beat, cut_16th_index)

HasKey(active, ch, n) ==
    \E i \in DOMAIN active : active[i].channel = ch /\ active[i].note = n

\* active_notes[(msg.channel, msg.note)] = msg.velocity
\* (a dict keeps the position of a key that is assigned again)
ActiveStore(active, msg) ==
    IF HasKey(active, msg.channel, msg.note)
    THEN [i \in DOMAIN active |->
            IF active[i].channel = msg.channel /\ active[i].note = msg.note
            THEN [active[i] EXCEPT !.velocity = msg.velocity]
            ELSE active[i]]
    ELSE Append(active, [channel |-> msg.channel, note |-> msg.note,
                         velocity |-> msg.velocity])

ActiveDeleteNever(active, msg) == active

\* if key in active_notes: del active_notes[key]
ActiveDelete(active, msg) ==
    SelectSeq(active,
              LAMBDA e : ~(e.channel = msg.channel /\ e.note = msg.note))

\* the tracker update of a message copied before the cut
TrackBefore(active, msg) ==
    IF IsNoteOn(msg) THEN ActiveStore(active, msg)
    ELSE IF IsNoteOff(msg) THEN ActiveDelete(active, msg)
    ELSE active

BoundaryRejectsNothing(msg) == FALSE

\* the messages rejected exactly on the cut boundary
BoundaryRejects(msg) == msg.type = "note_on" /\ msg.velocity > 0

\* the note_offs appended when the cut is crossed: the first carries
\* remaining_delta, the others 0
ForcedOffs(active, remaining_delta) ==
    [i \in DOMAIN active |->
        Message("note_off", active[i].channel, active[i].note, 0,
                IF i = 1 THEN remaining_delta ELSE 0)]

EndOfTrack == MetaMessage("end_of_track", 0)

\* the variant of the output file that keeps mido's default ticks_per_beat
MidiFileDefault(tpb) == [ticks_per_beat |-> 480, ntracks |-> 0]

\* new_mid = mido.MidiFile(); new_mid.ticks_per_beat = mid.ticks_per_beat.  Of
\* new_mid.tracks the model keeps the length; the track being built is
\* new_track
MidiFile(tpb) == [ticks_per_beat |-> tpb, ntracks |-> 0]

\* Python's None where a string is expected: a value that no string equals (a
\* string is modelled as the sequence of its characters)
None == <<"None">>

ChdIdle ==
    /\ notes = {}
    /\ pc = {}
    /\ bass_pc = 0
    /\ roots = <<>>
    /\ root_pc = 0
    /\ chord = None
    /\ label = None
    /\ chd_pc = "idle"
    /\ is_major = FALSE

LblIdle ==
    /\ lbl_func = <<>>
    /\ dominant = FALSE
    /\ tonic = FALSE
    /\ checked = {}

\* a file of the file system: whether it exists and the lines written to it
File(exists, lines) == [exists |-> exists, lines |-> lines]

RepIdle ==
    /\ file_type = "MIDI"
    /\ key_mode = "major"
    /\ sounding = <<>>
    /\ rep_tick = 0
    /\ report = File(FALSE, <<>>)
    /\ rep_exit = "none"
    /\ rep_pc = "idle"

\* the file analysis_text_path: whether it can be read, whether it has a
\* line matching "Strong Cadences.*\[(.*?)\]", and the text between the
\* brackets
Analysis(readable, trailer, nums) ==
    [readable |-> readable, trailer |-> trailer, nums |-> nums]

RawIdle ==
    /\ analysis = Analysis(FALSE, FALSE, <<>>)
    /\ cadence_ticks = <<>>
    /\ out_dir = FALSE
    /\ out_files = <<>>
    /\ raw_pc = "idle"

ExtIdle ==
    /\ ChdIdle
    /\ LblIdle
    /\ RepIdle
    /\ RawIdle

SmpIdle ==
    /\ tracks = <<>>
    /\ abs_time = 0
    /\ events = <<>>
    /\ total_16ths = 0
    /\ result = <<>>
    /\ smp_pc = "idle"

CadIdle ==
    /\ timeline = <<>>
    /\ runs = 0
    /\ chord_events = <<>>
    /\ strong_cadences = <<>>
    /\ regular_cadences = <<>>
    /\ cad_pc = "idle"

InitCut ==
    /\ JsbIdle
    /\ ticks_per_beat \in CutTicksPerBeat
    /\ cut_16th_index \in 0..MaxCutIndex
    /\ track = <<>>
    /\ current_time = 0
    /\ new_track = <<>>
    /\ active_notes = <<>>
    /\ cut_pc = "loop"
    /\ track_no = 0
    /\ msgs_before = 0
    /\ new_mid = MidiFile(ticks_per_beat)
    /\ SmpIdle
    /\ CadIdle
    /\ ExtIdle

\* Case 1: the message is completely before the cut
CutBefore(msg) ==
    /\ cut_pc = "loop"
    /\ msgs_before + Len(track) < MaxTrackLen
    /\ ~TrackEnded(track)
    /\ current_time + msg.time < cut_threshold_ticks
    /\ track' = Append(track, msg)
    /\ current_time' = current_time + msg.time
    /\ new_track' = Append(new_track, msg)
    /\ active_notes' = TrackBefore(active_notes, msg)
    /\ UNCHANGED <<ticks_per_beat, cut_16th_index, cut_pc, track_no, msgs_before,
                   new_mid, smpVars, cadVars, extVars, jsbVars>>

\* Case 2: the message is exactly on the cut boundary
CutBoundary(msg) ==
    /\ cut_pc = "loop"
    /\ msgs_before + Len(track) < MaxTrackLen
    /\ ~TrackEnded(track)
    /\ current_time + msg.time = cut_threshold_ticks
    /\ track' = Append(track, msg)
    /\ current_time' = current_time + msg.time
    /\ IF BoundaryRejects(msg)
       THEN UNCHANGED <<new_track, active_notes, jsbVars>>
       ELSE /\ new_track' = Append(new_track, msg)
            /\ active_notes' = IF IsNoteOff(msg)
                               THEN ActiveDelete(active_notes, msg)
                               ELSE active_notes
    /\ UNCHANGED <<ticks_per_beat, cut_16th_index, cut_pc, track_no, msgs_before,
                   new_mid, smpVars, cadVars, extVars, jsbVars>>

\* Case 3: the message is after the cut: force-close, break, finalize
CutAfter(msg) ==
    /\ cut_pc = "loop"
    /\ msgs_before + Len(track) < MaxTrackLen
    /\ ~TrackEnded(track)
    /\ current_time + msg.time > cut_threshold_ticks
    /\ track' = Append(track, msg)
    /\ current_time' = current_time + msg.time
    /\ LET remaining_delta == cut_threshold_ticks - current_time
       IN  new_track' = Append(new_track \o ForcedOffs(active_notes, remaining_delta),
                               EndOfTrack)
    /\ cut_pc' = "done"
    /\ new_mid' = [new_mid EXCEPT !.ntracks = @ + 1]
    /\ UNCHANGED <<ticks_per_beat, cut_16th_index, active_notes, track_no,
                   msgs_before, smpVars, cadVars, extVars, jsbVars>>

\* the track is exhausted without crossing the cut: finalize
CutExhausted ==
    /\ cut_pc = "loop"
    /\ new_track' = Append(new_track, EndOfTrack)
    /\ cut_pc' = "done"
    /\ new_mid' = [new_mid EXCEPT !.ntracks = @ + 1]
    /\ UNCHANGED <<ticks_per_beat, cut_16th_index, track, current_time,
                   active_notes, track_no, msgs_before, smpVars, cadVars, extVars,
                   jsbVars>>

\* the next iteration of `for track in mid.tracks`, after
\* new_mid.tracks.append(new_track): a fresh new_track, current_time and
\* active_notes (a track of a file has at least one message)
CutNextTrack ==
    /\ cut_pc = "done"
    /\ track # <<>>
    /\ track_no + 1 < MaxCutTracks
    /\ msgs_before + Len(track) < MaxTrackLen
    /\ track_no' = track_no + 1
    /\ msgs_before' = msgs_before + Len(track)
    /\ track' = <<>>
    /\ current_time' = 0
    /\ new_track' = <<>>
    /\ active_notes' = <<>>
    /\ cut_pc' = "loop"
    /\ UNCHANGED <<ticks_per_beat, cut_16th_index, new_mid, smpVars, cadVars,
                   extVars, jsbVars>>

NextCut ==
    \/ \E msg \in CutMessages : CutBefore(msg)
    \/ \E msg \in CutMessages : CutBoundary(msg)
    \/ \E msg \in CutMessages : CutAfter(msg)
    \/ CutExhausted
    \/ CutNextTrack

SpecCut == InitCut /\ [][NextCut]_vars

-----------------------------------------------------------------------------
(* Properties of cut_midi_at_16th                                          *)

\* absolute tick of message i of a track: the sum of the delta times up to it
RECURSIVE AbsTick(_, _)
AbsTick(tr, i) == IF i = 0 THEN 0 ELSE AbsTick(tr, i - 1) + tr[i].time

\* the absolute ticks of all messages of a track
RECURSIVE AbsTicks(_)
AbsTicks(tr) ==
    IF tr = <<>> THEN <<>>
    ELSE LET front == AbsTicks(SubSeq(tr, 1, Len(tr) - 1))
         IN  Append(front, (IF front = <<>> THEN 0 ELSE front[Len(front)])
                           + tr[Len(tr)].time)

SameKey(m, ch, n) == m.type \in {"note_on", "note_off"} /\ m.channel = ch /\ m.note = n

CutKeys == {<<m.channel, m.note>> : m \in {x \in CutMessages : x.type = "note_on"}}

\* the input messages the boundary policy lets through: those before the cut
\* and, on the cut, everything but an On (at: the input's absolute ticks)
PassesCut(at, i) ==
    \/ at[i] < cut_threshold_ticks
    \/ at[i] = cut_threshold_ticks /\ ~IsNoteOn(track[i])

\* the place in the output of input message i, if it passes
OutIndex(at, i) == Cardinality({j \in 1..i : PassesCut(at, j)})

\* the output positions holding forced note_offs
ForcedPositions(at) ==
    IF cut_pc = "done"
    THEN {j \in DOMAIN new_track : OutIndex(at, Len(track)) < j /\ j < Len(new_track)}
    ELSE {}

\* the loop was left by the break of Case 3
Broke ==
    cut_pc = "done" /\ Len(track) > 0
    /\ AbsTick(track, Len(track)) > cut_threshold_ticks

\* C1: the output holds no On at an absolute tick >= cut_tick (an On on the
\* cut is dropped); every Off and every meta-event on the cut is kept; and a
\* note whose natural Off is on the cut gets no forced Off.
C1_BoundaryPolicy ==
    LET at == AbsTicks(track)
        ot == AbsTicks(new_track)
        forced == ForcedPositions(at)
    IN  /\ \A j \in DOMAIN new_track :
              IsNoteOn(new_track[j]) => ot[j] < cut_threshold_ticks
        /\ \A i \in DOMAIN track :
              (at[i] = cut_threshold_ticks /\ ~IsNoteOn(track[i]))
                 => /\ OutIndex(at, i) \in DOMAIN new_track
                    /\ new_track[OutIndex(at, i)] = track[i]
        /\ \A i \in DOMAIN track :
              (at[i] = cut_threshold_ticks /\ IsNoteOff(track[i]))
                 => \A j \in forced :
                       ~SameKey(new_track[j], track[i].channel, track[i].note)

\* a finished cut whose track had, on the cut, a dropped On, the natural Off of
\* a note started before the cut, and a meta-event
C1_Witness ==
    /\ cut_pc = "done"
    /\ cut_threshold_ticks > 0
    /\ \E i \in DOMAIN track :
          AbsTick(track, i) = cut_threshold_ticks /\ IsNoteOn(track[i])
    /\ \E i, k \in DOMAIN track :
          /\ i < k
          /\ AbsTick(track, i) < cut_threshold_ticks /\ IsNoteOn(track[i])
          /\ AbsTick(track, k) = cut_threshold_ticks /\ IsNoteOff(track[k])
          /\ SameKey(track[k], track[i].channel, track[i].note)
    /\ \E i \in DOMAIN track :
          AbsTick(track, i) = cut_threshold_ticks /\ track[i].type = "set_tempo"

\* (channel, note) is sounding at the cut: an On copied before the cut with no
\* Off copied after it
SoundingAtCut(at, ch, n) ==
    \E i \in DOMAIN track :
        /\ IsNoteOn(track[i]) /\ SameKey(track[i], ch, n)
        /\ at[i] < cut_threshold_ticks
        /\ ~\E k \in DOMAIN track :
               /\ k > i
               /\ IsNoteOff(track[k]) /\ SameKey(track[k], ch, n)
               /\ at[k] <= cut_threshold_ticks

\* every On of the track read is followed by an Off of its (channel, note)
EveryOnClosed ==
    \A i \in DOMAIN track :
        IsNoteOn(track[i]) =>
            \E k \in DOMAIN track :
                k > i /\ IsNoteOff(track[k])
                /\ SameKey(track[k], track[i].channel, track[i].note)

ForcedFor(forced, ch, n) == {j \in forced : SameKey(new_track[j], ch, n)}

\* C2: when every On has its Off (or the cut was crossed, which is where such
\* an Off lies), each (channel, pitch) sounding at the cut gets exactly one
\* forced note_off of velocity 0 and a pitch closed before or on the cut none.
C2_NoStuckNote ==
    (cut_pc = "done" /\ (Broke \/ EveryOnClosed)) =>
        LET at == AbsTicks(track)
            forced == ForcedPositions(at)
        IN  /\ \A j \in forced :
                  new_track[j].type = "note_off" /\ new_track[j].velocity = 0
            /\ \A key \in CutKeys :
                  Cardinality(ForcedFor(forced, key[1], key[2]))
                      = IF SoundingAtCut(at, key[1], key[2]) THEN 1 ELSE 0

\* a crossed cut with one note sounding and another one closed before it
C2_Witness ==
    /\ Broke
    /\ LET at == AbsTicks(track)
           forced == ForcedPositions(at)
       IN  \E a, b \in CutKeys :
              /\ a # b
              /\ SoundingAtCut(at, a[1], a[2])
              /\ Cardinality(ForcedFor(forced, a[1], a[2])) = 1
              /\ ~SoundingAtCut(at, b[1], b[2])
              /\ \E i \in DOMAIN track :
                    IsNoteOff(track[i]) /\ SameKey(track[i], b[1], b[2])
                    /\ \E h \in 1..(i - 1) :
                          IsNoteOn(track[h]) /\ SameKey(track[h], b[1], b[2])

\* C3: every forced Off lies at absolute tick cut_tick of the output track, so
\* the output track's elapsed time is cut_tick (as stated by the claim).
C3_ForcedOffsOnCut ==
    LET forced == ForcedPositions(AbsTicks(track))
    IN  (cut_pc = "done" /\ forced # {}) =>
            /\ \A j \in forced :
                  AbsTick(new_track, j) = cut_threshold_ticks
            /\ AbsTick(new_track, Len(new_track)) = cut_threshold_ticks

-----------------------------------------------------------------------------
(* _get_sounding_notes_per_16th                                            *)

\* the messages a file given to the sampler is made of
SmpMessages ==
    {Message("note_on", 0, 60, 64, 0), Message("note_on", 1, 60, 64, 0),
     Message("note_on", 0, 62, 64, 1),
     Message("note_off", 0, 60, 0, 0), Message("note_on", 0, 60, 0, 1),
     MetaMessage("set_tempo", 1)}

CutIdle ==
    /\ cut_16th_index = 0
    /\ track = <<>>
    /\ current_time = 0
    /\ new_track = <<>>
    /\ active_notes = <<>>
    /\ cut_pc = "idle"
    /\ track_no = 0
    /\ msgs_before = 0
    /\ new_mid = MidiFile(0)

InitSampler ==
    /\ JsbIdle
    /\ ticks_per_beat \in SmpTicksPerBeat
    /\ tracks = <<>>
    /\ abs_time = 0
    /\ events = <<>>
    /\ total_16ths = 0
    /\ result = <<>>
    /\ smp_pc = "collect"
    /\ CutIdle
    /\ CadIdle
    /\ ExtIdle

RECURSIVE TotalLen(_)
TotalLen(trs) == IF trs = <<>> THEN 0 ELSE Len(Head(trs)) + TotalLen(Tail(trs))

\* the event tuple appended for a note message
EventOf(msg, t) ==
    [typ |-> IF IsNoteOn(msg) THEN "on" ELSE "off", t |-> t, n |-> msg.note]

SortKeyLessTickOnly(a, b) == a.t < b.t

\* the order of the sort key (x[1], 0 if x[0] == 'off' else 1)
SortKeyLess(a, b) ==
    \/ a.t < b.t
    \/ a.t = b.t /\ a.typ = "off" /\ b.typ # "off"

\* list.sort is stable: e goes behind every element whose key is not greater
RECURSIVE InsertByKey(_, _)
InsertByKey(s, e) ==
    IF s = <<>> THEN <<e>>
    ELSE IF SortKeyLess(e, s[Len(s)])
         THEN Append(InsertByKey(SubSeq(s, 1, Len(s) - 1), e), s[Len(s)])
         ELSE Append(s, e)

RECURSIVE SortEvents(_)
SortEvents(evs) ==
    IF evs = <<>> THEN <<>>
    ELSE InsertByKey(SortEvents(SubSeq(evs, 1, Len(evs) - 1)), evs[Len(evs)])

\* max(t for _, t, _ in events) if events else 0
LastTick(evs) ==
    IF evs = <<>> THEN 0
    ELSE CHOOSE m \in {evs[i].t : i \in DOMAIN evs} :
             \A i \in DOMAIN evs : evs[i].t <= m

\* Python's round of the quotient num / den: to nearest, a half to even
RoundHalfEven(num, den) ==
    LET q == num \div den
        r == num % den
    IN  IF 2 * r < den THEN q
        ELSE IF 2 * r > den THEN q + 1
        ELSE IF q % 2 = 0 THEN q ELSE q + 1

TotalSixteenthsTruncated(last_tick, tpb) == (4 * last_tick) \div tpb

\* int(round(last_tick / ticks_per_16th)), ticks_per_16th = ticks_per_beat / 4.0
TotalSixteenths(last_tick, tpb) == RoundHalfEven(4 * last_tick, tpb)

\* target_tick = int(tick_16th * ticks_per_16th)
TargetTick(tick_16th, tpb) == (tick_16th * tpb) \div 4

SweepStopsAtTarget(t, target_tick) == t >= target_tick

\* if t > target_tick: break
SweepStops(t, target_tick) == t > target_tick

\* the variant of the inner loop that counts the Ons of a pitch and lets an
\* Off take one of them back
RECURSIVE SweepCount(_, _, _, _)
SweepCount(evs, i, target_tick, counts) ==
    IF i > Len(evs) \/ SweepStops(evs[i].t, target_tick) THEN counts
    ELSE SweepCount(evs, i + 1, target_tick,
                    [counts EXCEPT ![evs[i].n] =
                        IF evs[i].typ = "on" THEN @ + 1
                        ELSE IF @ > 0 THEN @ - 1 ELSE 0])

SweepCounting(evs, i, target_tick, active) ==
    LET counts == SweepCount(evs, i, target_tick,
                             [q \in {evs[j].n : j \in DOMAIN evs} |-> 0])
    IN  {q \in DOMAIN counts : counts[q] > 0}

\* the inner loop over the sorted events, from event i on
RECURSIVE Sweep(_, _, _, _)
Sweep(evs, i, target_tick, active) ==
    IF i > Len(evs) \/ SweepStops(evs[i].t, target_tick) THEN active
    ELSE Sweep(evs, i + 1, target_tick,
               IF evs[i].typ = "on" THEN active \cup {evs[i].n}
               ELSE active \ {evs[i].n})

\* sorted(active)
RECURSIVE SortedList(_)
SortedList(S) ==
    IF S = {} THEN <<>>
    ELSE LET m == CHOOSE x \in S : \A y \in S : x <= y
         IN  <<m>> \o SortedList(S \ {m})

\* for track in mid.tracks: abs_time = 0
\* (the files of the model have no empty track)
SmpNextTrack ==
    /\ smp_pc = "collect"
    /\ Len(tracks) < MaxTracks
    /\ IF tracks = <<>> THEN TRUE ELSE tracks[Len(tracks)] # <<>>
    /\ tracks' = Append(tracks, <<>>)
    /\ abs_time' = 0
    /\ UNCHANGED <<ticks_per_beat, events, total_16ths, result, smp_pc, cutVars, cadVars, extVars,
                   jsbVars>>

\* for msg in track: one message of the current track
SmpCollect(msg) ==
    /\ smp_pc = "collect"
    /\ Len(tracks) > 0
    /\ TotalLen(tracks) < MaxMsgs
    /\ tracks' = [tracks EXCEPT ![Len(tracks)] = Append(@, msg)]
    /\ abs_time' = abs_time + msg.time
    /\ events' = IF IsNoteOn(msg) \/ IsNoteOff(msg)
                 THEN Append(events, EventOf(msg, abs_time + msg.time))
                 ELSE events
    /\ UNCHANGED <<ticks_per_beat, total_16ths, result, smp_pc, cutVars, cadVars, extVars,
                   jsbVars>>

\* the tracks are exhausted: sort, measure, sample every 16th, return
SmpSample ==
    /\ smp_pc = "collect"
    /\ LET sorted == SortEvents(events)
           last_tick == LastTick(sorted)
           total == TotalSixteenths(last_tick, ticks_per_beat)
       IN  /\ events' = sorted
           /\ total_16ths' = total
           /\ result' = [k \in 1..total |->
                            SortedList(Sweep(sorted, 1,
                                             TargetTick(k - 1, ticks_per_beat), {}))]
    /\ smp_pc' = "returned"
    /\ UNCHANGED <<ticks_per_beat, tracks, abs_time, cutVars, cadVars, extVars,
                   jsbVars>>

NextSampler ==
    \/ SmpNextTrack
    \/ \E msg \in SmpMessages : SmpCollect(msg)
    \/ SmpSample

SpecSampler == InitSampler /\ [][NextSampler]_vars

-----------------------------------------------------------------------------
(* Properties of _get_sounding_notes_per_16th                              *)

\* the note events of the file, read off its tracks: kind, absolute tick in the
\* track, channel and pitch of every note message
NoteEvents ==
    UNION {{[typ |-> IF IsNoteOn(tracks[k][i]) THEN "on" ELSE "off",
             t |-> AbsTick(tracks[k], i),
             ch |-> tracks[k][i].channel,
             n |-> tracks[k][i].note] :
                i \in {j \in DOMAIN tracks[k] :
                          tracks[k][j].type \in {"note_on", "note_off"}}} :
           k \in DOMAIN tracks}

RECURSIVE NumNoteMessages(_)
NumNoteMessages(trs) ==
    IF trs = <<>> THEN 0
    ELSE Cardinality({j \in DOMAIN Head(trs) :
                         Head(trs)[j].type \in {"note_on", "note_off"}})
         + NumNoteMessages(Tail(trs))

Pitches == {m.note : m \in {x \in SmpMessages : x.type = "note_on"}}
Channels == {m.channel : m \in {x \in SmpMessages : x.type = "note_on"}}

\* C4: in the merged event list the absolute ticks are non-decreasing and, at
\* equal tick, every Off precedes every On; the list holds the events of all
\* tracks.
C4_MergedOrder ==
    smp_pc = "returned" =>
        /\ Len(events) = NumNoteMessages(tracks)
        /\ {[typ |-> events[i].typ, t |-> events[i].t, n |-> events[i].n] :
                i \in DOMAIN events}
             = {[typ |-> e.typ, t |-> e.t, n |-> e.n] : e \in NoteEvents}
        /\ \A i, j \in DOMAIN events :
              i < j =>
                 /\ events[i].t <= events[j].t
                 /\ (events[i].t = events[j].t /\ events[j].typ = "off")
                       => events[i].typ = "off"

\* a merged list of a two-track file in which an On was collected before an Off
\* of the same tick, and a later track starts before the end of the first
C4_Witness ==
    /\ smp_pc = "returned"
    /\ Len(tracks) = 2
    /\ \E i \in DOMAIN tracks[1], j \in DOMAIN tracks[2] :
          /\ IsNoteOn(tracks[1][i]) /\ IsNoteOff(tracks[2][j])
          /\ AbsTick(tracks[1], i) = AbsTick(tracks[2], j)
    /\ \E i \in DOMAIN tracks[1], j \in DOMAIN tracks[2] :
          /\ IsNoteOn(tracks[1][i]) /\ IsNoteOn(tracks[2][j])
          /\ AbsTick(tracks[1], i) > AbsTick(tracks[2], j)

\* pitch p is sounding at 16th position k: it has an On at a tick <= k times the
\* subdivision length (ticks_per_beat / 4) with no Off of p after that On's tick
\* and up to that instant (at equal tick the Off comes first)
PitchSounding(evs, p, k) ==
    \E e \in evs :
        /\ e.typ = "on" /\ e.n = p /\ 4 * e.t <= k * ticks_per_beat
        /\ ~\E f \in evs :
               /\ f.typ = "off" /\ f.n = p
               /\ e.t < f.t /\ 4 * f.t <= k * ticks_per_beat

LastEventTick(evs) ==
    IF evs = {} THEN 0
    ELSE CHOOSE m \in {e.t : e \in evs} : \A e \in evs : e.t <= m

Range(s) == {s[i] : i \in DOMAIN s}

\* C5: snapshot i is exactly the set of pitches whose most recent event with
\* tick <= i * subdivision_length is an On, and there are total_subdivisions
\* snapshots, the integer nearest to last_event_tick / subdivision_length
\* (0 for a file with no note events).
C5_Snapshots ==
    smp_pc = "returned" =>
        LET evs == NoteEvents
            d == total_16ths * ticks_per_beat - 4 * LastEventTick(evs)
        IN  /\ Len(result) = total_16ths
            /\ total_16ths >= 0
            /\ 2 * d <= ticks_per_beat /\ -2 * d <= ticks_per_beat
            /\ (evs = {} => total_16ths = 0)
            /\ \A i \in DOMAIN result :
                  /\ Range(result[i]) = {p \in Pitches : PitchSounding(evs, p, i - 1)}
                  /\ Len(result[i]) = Cardinality(Range(result[i]))

\* a sampled file with a half-way last tick, a pitch that is sounding in one
\* snapshot and has ended in a later one
C5_Witness ==
    /\ smp_pc = "returned"
    /\ (4 * LastEventTick(NoteEvents)) % ticks_per_beat # 0
    /\ \E i, j \in DOMAIN result :
          /\ i < j
          /\ \E p \in Pitches : p \in Range(result[i]) /\ p \notin Range(result[j])

\* (channel, pitch) is sounding at 16th position k, replaying per channel
NoteSounding(evs, ch, p, k) ==
    \E e \in evs :
        /\ e.typ = "on" /\ e.ch = ch /\ e.n = p /\ 4 * e.t <= k * ticks_per_beat
        /\ ~\E f \in evs :
               /\ f.typ = "off" /\ f.ch = ch /\ f.n = p
               /\ e.t < f.t /\ 4 * f.t <= k * ticks_per_beat

\* (channel, pitch) was started and has received its Off by 16th position k
NoteEnded(evs, ch, p, k) ==
    /\ ~NoteSounding(evs, ch, p, k)
    /\ \E e \in evs :
          e.typ = "on" /\ e.ch = ch /\ e.n = p /\ 4 * e.t <= k * ticks_per_beat

\* C6: the active set is keyed by (channel, pitch): of two notes of one pitch
\* on different channels, when only one has received its Off the pitch is still
\* in the snapshot (as stated by the claim).
C6_KeyedByChannel ==
    smp_pc = "returned" =>
        LET evs == NoteEvents
        IN  \A i \in DOMAIN result : \A p \in Pitches : \A c1, c2 \in Channels :
                (/\ c1 # c2
                 /\ NoteEnded(evs, c1, p, i - 1)
                 /\ NoteSounding(evs, c2, p, i - 1))
                    => p \in Range(result[i])

-----------------------------------------------------------------------------
(* parse_harmonic_output, get_chord_events, is_perfect_cadence,            *)
(* find_cadences.  A function label is a string, modelled as the sequence  *)
(* of its characters.                                                      *)

\* the function labels of the reports
Functions == {<<"V">>, <<"V", "7">>, <<"V", "I">>, <<"I">>, <<"I", "V">>}

\* lengths of the label runs a report is written in: around the 2-tick and the
\* 8-tick thresholds
RunLens == {1, 2, 7, 8}

InitCadence ==
    /\ JsbIdle
    /\ timeline = <<>>
    /\ runs = 0
    /\ chord_events = <<>>
    /\ strong_cadences = <<>>
    /\ regular_cadences = <<>>
    /\ cad_pc = "input"
    /\ ticks_per_beat = 0
    /\ CutIdle
    /\ SmpIdle
    /\ ExtIdle

FinalDurationExclusive(final_tick, start_tick) == final_tick - start_tick

\* 'duration': final_tick - start_tick + 1
FinalDuration(final_tick, start_tick) == final_tick - start_tick + 1

ChordEvent(func, start_tick, duration) ==
    [function |-> func, start_tick |-> start_tick, duration |-> duration]

\* the loop of get_chord_events from sample i on, then the final event
RECURSIVE CompressFrom(_, _, _, _, _)
CompressFrom(tl, i, current_func, start_tick, evs) ==
    IF i > Len(tl)
    THEN Append(evs, ChordEvent(current_func, start_tick,
                                FinalDuration(tl[Len(tl)].tick, start_tick)))
    ELSE IF tl[i].function # current_func
         THEN CompressFrom(tl, i + 1, tl[i].function, tl[i].tick,
                           Append(evs, ChordEvent(current_func, start_tick,
                                                  tl[i].tick - start_tick)))
         ELSE CompressFrom(tl, i + 1, current_func, start_tick, evs)

\* the variant of get_chord_events that makes a run of every sample
get_chord_events_per_sample(tl) ==
    [i \in DOMAIN tl |->
        ChordEvent(tl[i].function, tl[i].tick,
                   IF i < Len(tl) THEN tl[i + 1].tick - tl[i].tick ELSE 1)]

get_chord_events(tl) ==
    IF tl = <<>> THEN <<>>
    ELSE CompressFrom(tl, 1, tl[1].function, tl[1].tick, <<>>)

\* the variant of is_dominant that looks at the first character only
is_dominant_first_only(func) == Len(func) >= 1 /\ func[1] = "V"

\* prev_func.startswith('V') and (len(prev_func) == 1 or prev_func[1] not in ['I', 'i'])
is_dominant(func) ==
    /\ Len(func) >= 1 /\ func[1] = "V"
    /\ (Len(func) = 1 \/ func[2] \notin {"I", "i"})

\* (curr_func.startswith('I') or curr_func.startswith('i')) and
\* (len(curr_func) == 1 or curr_func[1] not in ['I', 'i', 'V', 'v'])
is_tonic(func) ==
    /\ Len(func) >= 1 /\ func[1] \in {"I", "i"}
    /\ (Len(func) = 1 \/ func[2] \notin {"I", "i", "V", "v"})

LandsAnywhere(start_tick) == TRUE

\* the rhythmic check: not (curr['start_tick'] % 4 != 0)
LandsOnBeat(start_tick) == start_tick % 4 = 0

is_perfect_cadence(prev, curr) ==
    /\ is_dominant(prev.function) /\ is_tonic(curr.function)
    /\ LandsOnBeat(curr.start_tick)
    /\ ~(prev.duration < 2)

IsLongResolutionStrict(duration) == duration > 8

\* curr_event['duration'] >= 8
IsLongResolution(duration) == duration >= 8

\* the variant of the loop that lists a long resolution in both lists
RECURSIVE ScanPairsBoth(_, _, _, _)
ScanPairsBoth(evs, i, strong, regular) ==
    IF i + 1 > Len(evs) THEN <<strong, regular>>
    ELSE IF is_perfect_cadence(evs[i], evs[i + 1]) /\ evs[i + 1].duration >= 2
         THEN ScanPairsBoth(evs, i + 1,
                            IF IsLongResolution(evs[i + 1].duration)
                            THEN Append(strong, evs[i + 1].start_tick)
                            ELSE strong,
                            Append(regular, evs[i + 1].start_tick))
         ELSE ScanPairsBoth(evs, i + 1, strong, regular)

\* the loop of find_cadences over zip(chord_events, chord_events[1:]), from
\* pair (i, i + 1) on; the result is <<strong_cadences, regular_cadences>>
RECURSIVE ScanPairs(_, _, _, _)
ScanPairs(evs, i, strong, regular) ==
    IF i + 1 > Len(evs) THEN <<strong, regular>>
    ELSE IF is_perfect_cadence(evs[i], evs[i + 1])
         THEN IF IsLongResolution(evs[i + 1].duration)
              THEN ScanPairs(evs, i + 1, Append(strong, evs[i + 1].start_tick), regular)
              ELSE IF evs[i + 1].duration >= 2
                   THEN ScanPairs(evs, i + 1, strong,
                                  Append(regular, evs[i + 1].start_tick))
                   ELSE ScanPairs(evs, i + 1, strong, regular)
         ELSE ScanPairs(evs, i + 1, strong, regular)

\* the report's next lines: n samples of one function label at the next ticks
\* (save_harmonic_analysis writes one line per tick from 0 on), as parsed by
\* parse_harmonic_output
CadReadRun(func, n) ==
    /\ cad_pc = "input"
    /\ runs < MaxRuns
    /\ timeline' = timeline \o [k \in 1..n |->
                                   [tick |-> Len(timeline) + k - 1, function |-> func]]
    /\ runs' = runs + 1
    /\ UNCHANGED <<chord_events, strong_cadences, regular_cadences, cad_pc,
                   ticks_per_beat, cutVars, smpVars, extVars, jsbVars>>

\* find_cadences on the report read
CadFindCadences ==
    /\ cad_pc = "input"
    /\ LET evs == get_chord_events(timeline)
           found == ScanPairs(evs, 1, <<>>, <<>>)
       IN  /\ chord_events' = evs
           /\ strong_cadences' = found[1]
           /\ regular_cadences' = found[2]
    /\ cad_pc' = "returned"
    /\ UNCHANGED <<timeline, runs, ticks_per_beat, cutVars, smpVars, extVars,
                   jsbVars>>

NextCadence ==
    \/ \E func \in Functions, n \in RunLens : CadReadRun(func, n)
    \/ CadFindCadences

SpecCadence == InitCadence /\ [][NextCadence]_vars

-----------------------------------------------------------------------------
(* Properties of get_chord_events and find_cadences                        *)

\* the pair (chord_events[i - 1], chord_events[i]) passes the four gates
PassesGates(i) ==
    /\ is_dominant(chord_events[i - 1].function)
    /\ is_tonic(chord_events[i].function)
    /\ chord_events[i].start_tick % 4 = 0
    /\ chord_events[i - 1].duration >= 2

\* n samples of one label from tick `first` on
Samples(func, first, n) ==
    [k \in 1..n |-> [tick |-> first + k - 1, function |-> func]]

\* C8: a cadence is reported at curr.start_tick only for an adjacent pair of
\* runs with a dominant prev, a tonic curr, curr.start_tick mod 4 = 0 and
\* prev.duration >= 2; the timeline [V,V,V,V,I,I,I,I,I,I,I,I] at ticks 0..11
\* gives exactly one Strong cadence, at tick 4, and no Regular one.
C8_CadenceGates ==
    cad_pc = "returned" =>
        /\ \A t \in Range(strong_cadences) \cup Range(regular_cadences) :
              \E i \in 2..Len(chord_events) :
                  chord_events[i].start_tick = t /\ PassesGates(i)
        /\ timeline = Samples(<<"V">>, 0, 4) \o Samples(<<"I">>, 4, 8)
              => strong_cadences = <<4>> /\ regular_cadences = <<>>

\* find_cadences has returned for the timeline [V x 4, I x 8]
C8_Witness ==
    /\ cad_pc = "returned"
    /\ timeline = Samples(<<"V">>, 0, 4) \o Samples(<<"I">>, 4, 8)
    /\ strong_cadences = <<4>>

\* C9: a pair passing the four gates is listed as Strong iff curr.duration >= 8,
\* as Regular iff 2 <= curr.duration < 8, in neither list iff curr.duration < 2;
\* dominant 2 then tonic 8 is Strong, tonic 7 is Regular, and a dominant of
\* duration 1 yields no cadence.
C9_StrengthByDuration ==
    cad_pc = "returned" =>
        /\ \A i \in 2..Len(chord_events) :
              PassesGates(i) =>
                 LET t == chord_events[i].start_tick
                     d == chord_events[i].duration
                 IN  /\ t \in Range(strong_cadences) <=> d >= 8
                     /\ t \in Range(regular_cadences) <=> (2 <= d /\ d < 8)
                     /\ (t \notin Range(strong_cadences)
                           /\ t \notin Range(regular_cadences)) <=> d < 2
        /\ \A x \in Functions \ {<<"V">>, <<"I">>} :
              /\ timeline = Samples(x, 0, 2) \o Samples(<<"V">>, 2, 2)
                               \o Samples(<<"I">>, 4, 8)
                    => strong_cadences = <<4>> /\ regular_cadences = <<>>
              /\ timeline = Samples(x, 0, 2) \o Samples(<<"V">>, 2, 2)
                               \o Samples(<<"I">>, 4, 7)
                    => strong_cadences = <<>> /\ regular_cadences = <<4>>
              /\ timeline = Samples(x, 0, 7) \o Samples(<<"V">>, 7, 1)
                               \o Samples(<<"I">>, 8, 8)
                    => strong_cadences = <<>> /\ regular_cadences = <<>>

\* a dominant run of exactly 2 ticks resolved on the beat by a tonic run of
\* exactly 8 ticks, listed as Strong
C9_Witness ==
    /\ cad_pc = "returned"
    /\ \E i \in 2..Len(chord_events) :
          /\ PassesGates(i)
          /\ chord_events[i - 1].duration = 2
          /\ chord_events[i].duration = 8
          /\ chord_events[i].start_tick \in Range(strong_cadences)

RECURSIVE Expand(_)
Expand(evs) ==
    IF evs = <<>> THEN <<>>
    ELSE Samples(Head(evs).function, Head(evs).start_tick, Head(evs).duration)
            \o Expand(Tail(evs))

ConsecutiveTicks(tl) ==
    \A i \in 1..(Len(tl) - 1) : tl[i + 1].tick = tl[i].tick + 1

\* C10: for a non-empty timeline at consecutive ticks, expanding the runs of
\* get_chord_events (each label repeated duration times from start_tick)
\* gives back the timeline, the final run having duration
\* last_tick - start_tick + 1.
C10_RoundTrip ==
    (cad_pc = "returned" /\ timeline # <<>> /\ ConsecutiveTicks(timeline)) =>
        /\ Expand(chord_events) = timeline
        /\ LET last == chord_events[Len(chord_events)]
           IN  last.duration = timeline[Len(timeline)].tick - last.start_tick + 1

\* a compressed report of several runs, two of the written runs merged into one
C10_Witness ==
    /\ cad_pc = "returned"
    /\ Len(chord_events) >= 2
    /\ Len(chord_events) < runs
    /\ Expand(chord_events) = timeline

-----------------------------------------------------------------------------
(* adisi_utils/get_chords_per_16th.py: the chord classifier                *)
(* _notes_to_chord.  A chord label is a string, modelled as the sequence   *)
(* of its characters; the loop over the candidate roots is one step per    *)
(* root.                                                                   *)

\* most notes of a set given to _notes_to_chord
MaxNotes == 5

\* the pitches of the input sets: an octave and a half, so that every pitch
\* class occurs and a pitch class can lie below a smaller one
ChordPitches == 54..71

NOTES ==
    << <<"C">>, <<"C", "#">>, <<"D">>, <<"D", "#">>, <<"E">>, <<"F">>,
       <<"F", "#">>, <<"G">>, <<"G", "#">>, <<"A">>, <<"A", "#">>, <<"B">> >>

\* NOTES[p] of the source (Python indexes from 0)
NoteName(p) == NOTES[p + 1]

\* s.startswith(p)
StartsWith(s, p) == Len(s) >= Len(p) /\ SubSeq(s, 1, Len(p)) = p

get_intervals(rpc) ==
    [m2 |-> (rpc + 1) % 12, M2 |-> (rpc + 2) % 12, m3 |-> (rpc + 3) % 12,
     M3 |-> (rpc + 4) % 12, p4 |-> (rpc + 5) % 12, d5 |-> (rpc + 6) % 12,
     p5 |-> (rpc + 7) % 12, a5 |-> (rpc + 8) % 12, d7 |-> (rpc + 9) % 12,
     m7 |-> (rpc + 10) % 12, M7 |-> (rpc + 11) % 12]

\* the variant of _check_sus_chord that tries sus4 before sus2
check_sus_chord_sus4_first(rpc, pcs, iv) ==
    IF iv.p4 \in pcs /\ iv.p5 \in pcs
    THEN NoteName(rpc) \o <<"s", "u", "s", "4">>
             \o (IF iv.m7 \in pcs THEN <<"7">> ELSE <<>>)
    ELSE IF iv.M2 \in pcs /\ iv.p5 \in pcs
    THEN NoteName(rpc) \o <<"s", "u", "s", "2">>
             \o (IF iv.m7 \in pcs THEN <<"7">> ELSE <<>>)
    ELSE None

check_sus_chord(rpc, pcs, iv) ==
    IF iv.M2 \in pcs /\ iv.p5 \in pcs
    THEN NoteName(rpc) \o <<"s", "u", "s", "2">>
             \o (IF iv.m7 \in pcs THEN <<"7">> ELSE <<>>)
    ELSE IF iv.p4 \in pcs /\ iv.p5 \in pcs
    THEN NoteName(rpc) \o <<"s", "u", "s", "4">>
             \o (IF iv.m7 \in pcs THEN <<"7">> ELSE <<>>)
    ELSE None

\* the variant of _get_tensions that appends b13 first
get_tensions_b13_first(rpc, pcs, iv, has_3rd) ==
    (IF iv.a5 \in pcs /\ (iv.m7 \in pcs \/ iv.M7 \in pcs)
     THEN << <<"b", "1", "3">> >> ELSE <<>>)
    \o (IF iv.m2 \in pcs THEN << <<"b", "9">> >> ELSE <<>>)
    \o (IF iv.d5 \in pcs /\ has_3rd /\ iv.p5 \in pcs
        THEN << <<"#", "1", "1">> >> ELSE <<>>)

\* the variant of _get_tensions whose b13 does not need a 7th
get_tensions_b13_without_7th(rpc, pcs, iv, has_3rd) ==
    (IF iv.m2 \in pcs THEN << <<"b", "9">> >> ELSE <<>>)
    \o (IF iv.d5 \in pcs /\ has_3rd /\ iv.p5 \in pcs
        THEN << <<"#", "1", "1">> >> ELSE <<>>)
    \o (IF iv.a5 \in pcs THEN << <<"b", "1", "3">> >> ELSE <<>>)

\* the list of tension strings, in the order they are appended
get_tensions(rpc, pcs, iv, has_3rd) ==
    (IF iv.m2 \in pcs THEN << <<"b", "9">> >> ELSE <<>>)
    \o (IF iv.d5 \in pcs /\ has_3rd /\ iv.p5 \in pcs
        THEN << <<"#", "1", "1">> >> ELSE <<>>)
    \o (IF iv.a5 \in pcs /\ (iv.m7 \in pcs \/ iv.M7 \in pcs)
        THEN << <<"b", "1", "3">> >> ELSE <<>>)

\* "".join(strs)
RECURSIVE Join(_)
Join(strs) ==
    IF strs = <<>> THEN <<>> ELSE Head(strs) \o Join(Tail(strs))

check_major_chord(rpc, pcs, iv, tensions) ==
    IF iv.M3 \in pcs /\ iv.p5 \in pcs
    THEN LET base == NoteName(rpc)
                     \o (IF iv.M7 \in pcs THEN <<"m", "a", "j", "7">>
                         ELSE IF iv.m7 \in pcs THEN <<"7">> ELSE <<>>)
         IN  IF tensions # <<>> THEN base \o Join(tensions) ELSE base
    ELSE None

check_minor_chord(rpc, pcs, iv, tensions) ==
    IF iv.m3 \in pcs /\ iv.p5 \in pcs
    THEN LET base == NoteName(rpc) \o <<"m">>
                     \o (IF iv.m7 \in pcs THEN <<"7">> ELSE <<>>)
         IN  IF tensions # <<>> THEN base \o Join(tensions) ELSE base
    ELSE None

check_dim_chord(rpc, pcs, iv, tensions) ==
    IF iv.m3 \in pcs /\ iv.d5 \in pcs
    THEN IF iv.d7 \in pcs THEN NoteName(rpc) \o <<"d", "i", "m", "7">>
         ELSE IF iv.m7 \in pcs THEN NoteName(rpc) \o <<"m", "7", "b", "5">>
         ELSE NoteName(rpc) \o <<"d", "i", "m">>
    ELSE None

check_aug_chord(rpc, pcs, iv, tensions) ==
    IF iv.M3 \in pcs /\ iv.a5 \in pcs
    THEN NoteName(rpc) \o <<"a", "u", "g">>
    ELSE None

find_chord_type(rpc, pcs) ==
    LET iv == get_intervals(rpc)
        has_3rd == iv.m3 \in pcs \/ iv.M3 \in pcs
        sus == check_sus_chord(rpc, pcs, iv)
        tensions == get_tensions(rpc, pcs, iv, has_3rd)
    IN  IF ~has_3rd /\ sus # None THEN sus
        ELSE IF check_major_chord(rpc, pcs, iv, tensions) # None
        THEN check_major_chord(rpc, pcs, iv, tensions)
        ELSE IF check_minor_chord(rpc, pcs, iv, tensions) # None
        THEN check_minor_chord(rpc, pcs, iv, tensions)
        ELSE IF check_dim_chord(rpc, pcs, iv, tensions) # None
        THEN check_dim_chord(rpc, pcs, iv, tensions)
        ELSE IF check_aug_chord(rpc, pcs, iv, tensions) # None
        THEN check_aug_chord(rpc, pcs, iv, tensions)
        ELSE None

\* min(s) of a non-empty set of integers
min(s) == CHOOSE x \in s : \A y \in s : x <= y

\* the variant of sorted that lists a set in descending order
RECURSIVE sorted_descending(_)
sorted_descending(s) ==
    IF s = {} THEN <<>>
    ELSE LET m == CHOOSE x \in s : \A y \in s : x >= y
         IN  <<m>> \o sorted_descending(s \ {m})

\* sorted(s) of a set of integers: the list of its elements in ascending order
RECURSIVE sorted(_)
sorted(s) ==
    IF s = {} THEN <<>> ELSE <<min(s)>> \o sorted(s \ {min(s)})

\* the variant of the return expression that always appends the bass
slash_label_always(c, b, rt) == c \o <<"/">> \o NoteName(b)

\* f"{chord}/{NOTES[bass_pc]}" if bass_pc != r else chord
slash_label(c, b, rt) ==
    IF b # rt THEN c \o <<"/">> \o NoteName(b) ELSE c

InitChord ==
    /\ JsbIdle
    /\ notes \in {s \in SUBSET ChordPitches : Cardinality(s) <= MaxNotes}
    /\ pc = {}
    /\ bass_pc = 0
    /\ roots = <<>>
    /\ root_pc = 0
    /\ chord = None
    /\ label = None
    /\ chd_pc = "call"
    /\ is_major = FALSE
    /\ ticks_per_beat = 0
    /\ CutIdle
    /\ SmpIdle
    /\ CadIdle
    /\ LblIdle
    /\ RepIdle
    /\ RawIdle

\* `if not notes or len(notes) > 4: return None`
ChordReject ==
    /\ chd_pc = "call"
    /\ notes = {} \/ Cardinality(notes) > 4
    /\ label' = None
    /\ chd_pc' = "returned"
    /\ UNCHANGED <<is_major, notes, pc, bass_pc, roots, root_pc, chord,
                   ticks_per_beat, cutVars, smpVars, cadVars, lblVars, repVars,
                   rawVars, jsbVars>>

\* the pitch classes, the bass and the list of candidate roots
ChordEnter ==
    /\ chd_pc = "call"
    /\ ~(notes = {} \/ Cardinality(notes) > 4)
    /\ pc' = {n % 12 : n \in notes}
    /\ bass_pc' = min(notes) % 12
    /\ roots' = sorted({n % 12 : n \in notes})
    /\ chd_pc' = "loop"
    /\ UNCHANGED <<is_major, notes, root_pc, chord, label,
                   ticks_per_beat, cutVars, smpVars, cadVars, lblVars, repVars,
                   rawVars, jsbVars>>

\* one iteration of `for r in sorted(pc)`: return on the first root that has a
\* chord type
ChordTryRoot ==
    /\ chd_pc = "loop"
    /\ roots # <<>>
    /\ root_pc' = Head(roots)
    /\ roots' = Tail(roots)
    /\ chord' = find_chord_type(Head(roots), pc)
    /\ IF find_chord_type(Head(roots), pc) # None
       THEN /\ label' = slash_label(find_chord_type(Head(roots), pc), bass_pc,
                                    Head(roots))
            /\ chd_pc' = "returned"
       ELSE UNCHANGED <<label, chd_pc, jsbVars>>
    /\ UNCHANGED <<is_major, notes, pc, bass_pc,
                   ticks_per_beat, cutVars, smpVars, cadVars, lblVars, repVars,
                   rawVars, jsbVars>>

\* no root has a chord type: `return NOTES[bass_pc]`
ChordFallback ==
    /\ chd_pc = "loop"
    /\ roots = <<>>
    /\ label' = NoteName(bass_pc)
    /\ chd_pc' = "returned"
    /\ UNCHANGED <<is_major, notes, pc, bass_pc, roots, root_pc, chord,
                   ticks_per_beat, cutVars, smpVars, cadVars, lblVars, repVars,
                   rawVars, jsbVars>>

\* chord.split('/')[0] of get_5_to_1_places
chord_base(s) ==
    IF \E i \in DOMAIN s : s[i] = "/"
    THEN SubSeq(s, 1, (CHOOSE i \in DOMAIN s :
                          s[i] = "/" /\ \A j \in 1..(i - 1) : s[j] # "/") - 1)
    ELSE s

\* the variant of _is_major_chord that wants an explicit major quality
is_major_chord_explicit(cb) ==
    LET quality_start == IF Len(cb) >= 2 /\ cb[2] = "#" THEN 2 ELSE 1
        quality == SubSeq(cb, quality_start + 1, Len(cb))
    IN  /\ quality # <<>>
        /\ ~(StartsWith(quality, <<"m">>) /\ ~StartsWith(quality, <<"m", "a", "j">>))
        /\ ~StartsWith(quality, <<"d", "i", "m">>)
        /\ ~StartsWith(quality, <<"a", "u", "g">>)
        /\ ~StartsWith(quality, <<"s", "u", "s">>)

\* _is_major_chord of adisi_utils/get_5_to_1_places.py
is_major_chord(cb) ==
    IF Len(cb) <= 1 THEN TRUE
    ELSE LET quality_start == IF cb[2] = "#" THEN 2 ELSE 1
             quality == SubSeq(cb, quality_start + 1, Len(cb))
         IN  IF quality_start >= Len(cb) THEN TRUE
             ELSE IF StartsWith(quality, <<"m">>)
                     /\ ~StartsWith(quality, <<"m", "a", "j">>) THEN FALSE
             ELSE IF StartsWith(quality, <<"d", "i", "m">>)
                     \/ StartsWith(quality, <<"a", "u", "g">>) THEN FALSE
             ELSE IF StartsWith(quality, <<"s", "u", "s">>) THEN FALSE
             ELSE TRUE

\* get_5_to_1_places reads the label back from the chord file (a None was
\* written as 'rest' and is skipped) and, once it is the previous chord,
\* tests _is_major_chord(prev_chord_base)
ChordDownstream ==
    /\ chd_pc = "returned"
    /\ label # None
    /\ is_major' = is_major_chord(chord_base(label))
    /\ chd_pc' = "read"
    /\ UNCHANGED <<notes, pc, bass_pc, roots, root_pc, chord, label,
                   ticks_per_beat, cutVars, smpVars, cadVars, lblVars, repVars,
                   rawVars, jsbVars>>

NextChord ==
    \/ ChordReject
    \/ ChordEnter
    \/ ChordTryRoot
    \/ ChordFallback
    \/ ChordDownstream

SpecChord == InitChord /\ [][NextChord]_vars

-----------------------------------------------------------------------------
(* Properties of _notes_to_chord.                                          *)

\* s.endswith(p)
EndsWith(s, p) ==
    Len(s) >= Len(p) /\ SubSeq(s, Len(s) - Len(p) + 1, Len(s)) = p

\* p in s, for strings
Contains(s, p) ==
    \E i \in 1..(Len(s) - Len(p) + 1) : SubSeq(s, i, i + Len(p) - 1) = p

\* the intervals, in semitones above the root rt, of the pitch classes pcs
Offsets(rt, pcs) == {(p + 12 - rt) % 12 : p \in pcs}

\* the first pattern, in the order suspended (only without a 3rd), major,
\* minor, diminished, augmented, that the root rt matches in pcs
Pattern(rt, pcs) ==
    LET o == Offsets(rt, pcs)
    IN  IF 3 \notin o /\ 4 \notin o /\ 7 \in o /\ (2 \in o \/ 5 \in o) THEN "sus"
        ELSE IF {4, 7} \subseteq o THEN "major"
        ELSE IF {3, 7} \subseteq o THEN "minor"
        ELSE IF {3, 6} \subseteq o THEN "dim"
        ELSE IF {4, 8} \subseteq o THEN "aug"
        ELSE "none"

\* the pattern a label names on the root rt, read off its characters ("other"
\* when the label is not on rt); a sharp after a one-letter root name belongs
\* to the root unless it starts the tension #11
LabelFamily(lbl, rt) ==
    LET name == NoteName(rt)
        rest == SubSeq(lbl, Len(name) + 1, Len(lbl))
    IN  IF ~StartsWith(lbl, name) THEN "other"
        ELSE IF Len(name) = 1 /\ StartsWith(rest, <<"#">>)
                /\ ~StartsWith(rest, <<"#", "1", "1">>) THEN "other"
        ELSE IF StartsWith(rest, <<"s", "u", "s">>) THEN "sus"
        ELSE IF StartsWith(rest, <<"d", "i", "m">>) THEN "dim"
        ELSE IF StartsWith(rest, <<"m", "7", "b", "5">>) THEN "dim"
        ELSE IF StartsWith(rest, <<"a", "u", "g">>) THEN "aug"
        ELSE IF StartsWith(rest, <<"m", "a", "j">>) THEN "major"
        ELSE IF StartsWith(rest, <<"m">>) THEN "minor"
        ELSE "major"

\* lbl is the string base, alone or followed by a slash and a bass name
IsOn(lbl, base) ==
    StartsWith(lbl, base) /\ (Len(lbl) = Len(base) \/ lbl[Len(base) + 1] = "/")

\* C11: for a set of 1 to 4 pitches of which some pitch class matches a
\* pattern, the label returned is on the smallest matching pitch class and
\* names the first pattern that root matches, in the order suspended (only
\* without a 3rd), major, minor, diminished, augmented; the pitch classes
\* {0,4,7} give C, {0,3,7} Cm, {0,3,6} Cdim, {0,4,8} Caug and {0,2,7} Csus2.
C11_FirstMatch ==
    (chd_pc = "returned" /\ notes # {} /\ Cardinality(notes) <= 4) =>
        LET pcs == {n % 12 : n \in notes}
            matching == {rt \in pcs : Pattern(rt, pcs) # "none"}
        IN  /\ matching # {} =>
                   LabelFamily(label, min(matching)) = Pattern(min(matching), pcs)
            /\ pcs = {0, 4, 7} => IsOn(label, <<"C">>)
            /\ pcs = {0, 3, 7} => IsOn(label, <<"C", "m">>)
            /\ pcs = {0, 3, 6} => IsOn(label, <<"C", "d", "i", "m">>)
            /\ pcs = {0, 4, 8} => IsOn(label, <<"C", "a", "u", "g">>)
            /\ pcs = {0, 2, 7} => IsOn(label, <<"C", "s", "u", "s", "2">>)

\* the first root tried, C, matches nothing; the second, F, matches both the
\* major and the minor pattern
C11_Witness ==
    /\ chd_pc = "returned"
    /\ notes = {60, 65, 68, 69}
    /\ label = <<"F", "/", "C">>

\* C12: for a set of pitches of more than 4 distinct pitch classes, the value
\* returned is the bare name of the pitch class of the lowest pitch, with no
\* quality and no slash.
C12_BareBassName ==
    (chd_pc = "returned" /\ Cardinality({n % 12 : n \in notes}) > 4) =>
        label = NoteName(min(notes) % 12)

\* C13: a label returned for a matched root ends with a slash and the name of
\* the pitch class of the lowest pitch exactly when that pitch class differs
\* from the matched root, and has no slash otherwise; a major triad on C whose
\* lowest pitch is a G is labelled C/G.
C13_SlashIffInversion ==
    (chd_pc = "returned" /\ chord # None) =>
        LET bass == min(notes) % 12
        IN  /\ EndsWith(label, <<"/">> \o NoteName(bass)) <=> bass # root_pc
            /\ bass = root_pc => ~Contains(label, <<"/">>)
            /\ bass # root_pc => label = chord \o <<"/">> \o NoteName(bass)
            /\ ({n % 12 : n \in notes} = {0, 4, 7} /\ bass = 7) =>
                   label = <<"C", "/", "G">>

\* the C major triad over G
C13_Witness ==
    /\ chd_pc = "returned"
    /\ notes = {55, 60, 64}
    /\ root_pc = 0
    /\ label = <<"C", "/", "G">>

\* C20: when the candidate root tried has neither a minor nor a major 3rd in
\* the set, a major 2nd with a perfect 5th gives sus2, otherwise a perfect 4th
\* with a perfect 5th gives sus4, the label ends with 7 exactly when the minor
\* 7th is in the set, and it carries no tension; when the root has a 3rd, the
\* label found for it is never a suspended one.
C20_Suspended ==
    (chd_pc \in {"loop", "returned"} /\ pc # {} /\ Len(roots) < Cardinality(pc)) =>
        LET o == Offsets(root_pc, pc)
            seventh == IF 10 \in o THEN <<"7">> ELSE <<>>
        IN  /\ (3 \notin o /\ 4 \notin o /\ 2 \in o /\ 7 \in o) =>
                   chord = NoteName(root_pc) \o <<"s", "u", "s", "2">> \o seventh
            /\ (3 \notin o /\ 4 \notin o /\ 2 \notin o /\ 5 \in o /\ 7 \in o) =>
                   chord = NoteName(root_pc) \o <<"s", "u", "s", "4">> \o seventh
            /\ (3 \in o \/ 4 \in o) => ~Contains(chord, <<"s", "u", "s">>)
            /\ Contains(chord, <<"s", "u", "s">>) =>
                   /\ ~Contains(chord, <<"b", "9">>)
                   /\ ~Contains(chord, <<"#", "1", "1">>)
                   /\ ~Contains(chord, <<"b", "1", "3">>)

\* D has the major 2nd, the perfect 4th, the perfect 5th and the minor 2nd (a
\* b9 for a root with a 3rd) in the set, and no 3rd: sus2 wins, with no tension
C20_Witness ==
    /\ chd_pc = "returned"
    /\ notes = {62, 63, 64, 69}
    /\ root_pc = 2
    /\ chord = <<"D", "s", "u", "s", "2">>

-----------------------------------------------------------------------------
(* Further properties of cut_midi_at_16th.                                 *)

\* C15: for an input file whose ticks-per-beat is zero, cut_midi_at_16th fails
\* before producing anything: no output track is finalized and the output file
\* gets no track.
C15_MalformedHeader ==
    (cut_pc # "idle" /\ ticks_per_beat = 0) =>
        (cut_pc # "done" /\ new_mid.ntracks = 0)

\* C19: the messages of the input track at absolute ticks before the cut
\* (they are its first messages) are the first messages of the output track,
\* in the same order and unchanged in type, channel, pitch, velocity and delta;
\* when a track is finalized, the output file has as many tracks as the input
\* tracks iterated and the input's ticks-per-beat.
C19_PrefixPreserved ==
    cut_pc \in {"loop", "done"} =>
        LET before == {i \in DOMAIN track : AbsTick(track, i) < cut_threshold_ticks}
        IN  /\ before = 1..Cardinality(before)
            /\ Len(new_track) >= Cardinality(before)
            /\ \A i \in before : new_track[i] = track[i]
            /\ cut_pc = "done" =>
                   /\ new_mid.ntracks = track_no + 1
                   /\ new_mid.ticks_per_beat = ticks_per_beat

\* the second track of a file is finalized: its first message, a note_on, lies
\* before the cut, the second on it and the third after it
C19_Witness ==
    /\ cut_pc = "done"
    /\ track_no = 1
    /\ new_mid.ntracks = 2
    /\ Len(track) = 3
    /\ AbsTick(track, 1) < cut_threshold_ticks
    /\ AbsTick(track, 2) = cut_threshold_ticks
    /\ AbsTick(track, 3) > cut_threshold_ticks
    /\ IsNoteOn(track[1])
    /\ new_track[1] = track[1]

-----------------------------------------------------------------------------
(* The harmonic check of is_perfect_cadence, applied to one function label *)
(* in both roles: in find_cadences every event but the first and the last  *)
(* is curr of one pair and prev of the next.                               *)

\* longest function label
MaxLabelLen == 3

\* the characters of the function labels
LabelChars == {"V", "I", "i", "v", "7"}

Labels == UNION {[1..n -> LabelChars] : n \in 0..MaxLabelLen}

InitLabel ==
    /\ JsbIdle
    /\ lbl_func \in Labels
    /\ dominant = FALSE
    /\ tonic = FALSE
    /\ checked = {}
    /\ ticks_per_beat = 0
    /\ CutIdle
    /\ SmpIdle
    /\ CadIdle
    /\ ChdIdle
    /\ RepIdle
    /\ RawIdle

\* the label as prev_func
LabelAsPrev ==
    /\ "dominant" \notin checked
    /\ dominant' = is_dominant(lbl_func)
    /\ checked' = checked \cup {"dominant"}
    /\ UNCHANGED <<lbl_func, tonic, ticks_per_beat, cutVars, smpVars, cadVars,
                   chdVars, repVars, rawVars, jsbVars>>

\* the label as curr_func
LabelAsCurr ==
    /\ "tonic" \notin checked
    /\ tonic' = is_tonic(lbl_func)
    /\ checked' = checked \cup {"tonic"}
    /\ UNCHANGED <<lbl_func, dominant, ticks_per_beat, cutVars, smpVars, cadVars,
                   chdVars, repVars, rawVars, jsbVars>>

NextLabel ==
    \/ LabelAsPrev
    \/ LabelAsCurr

SpecLabel == InitLabel /\ [][NextLabel]_vars

\* C18: a label is dominant exactly when it starts with V and has no second
\* character or one that is neither I nor i; it is tonic exactly when it
\* starts with I or i and has no second character or one that is none of I, i,
\* V, v; so no label beginning with II, III, IV, VI, VII, ii, iii, iv, vi or
\* vii is dominant or tonic, and the empty label is neither.
C18_DominantTonic ==
    LET second == IF Len(lbl_func) >= 2 THEN {lbl_func[2]} ELSE {}
        excluded == {<<"I", "I">>, <<"I", "I", "I">>, <<"I", "V">>, <<"V", "I">>,
                     <<"V", "I", "I">>, <<"i", "i">>, <<"i", "i", "i">>,
                     <<"i", "v">>, <<"v", "i">>, <<"v", "i", "i">>}
    IN  /\ "dominant" \in checked =>
            /\ dominant <=> (StartsWith(lbl_func, <<"V">>)
                             /\ second \cap {"I", "i"} = {})
            /\ (\E p \in excluded : StartsWith(lbl_func, p)) => ~dominant
            /\ lbl_func = <<>> => ~dominant
        /\ "tonic" \in checked =>
            /\ tonic <=> ((StartsWith(lbl_func, <<"I">>) \/ StartsWith(lbl_func, <<"i">>))
                          /\ second \cap {"I", "i", "V", "v"} = {})
            /\ (\E p \in excluded : StartsWith(lbl_func, p)) => ~tonic
            /\ lbl_func = <<>> => ~tonic

\* VI7 has been checked in both roles and is neither dominant nor tonic
C18_Witness ==
    /\ checked = {"dominant", "tonic"}
    /\ lbl_func = <<"V", "I", "7">>
    /\ ~dominant
    /\ ~tonic

-----------------------------------------------------------------------------
(* save_harmonic_analysis on one input file, and the step the batch driver *)
(* run_process_on_all_midi_files_in_directory takes after it.  The input   *)
(* is given per 16th: sounding_notes[tick] on the MIDI path, the pitches   *)
(* of the chord element sounding at the tick on the MusicXML path ({}      *)
(* where no element sounds).                                               *)

\* most 16th positions of an input file of save_harmonic_analysis
MaxTicks == 3

\* the pitches sounding at a 16th: none, two, three
PositionSets == {{}, {60, 64}, {60, 64, 67}}

\* the figures romanNumeralFromChord gives
Figures == {<<"V">>, <<"I">>}

\* a line of a report file
Line(kind, tick, function, list) ==
    [kind |-> kind, tick |-> tick, function |-> function, list |-> list]

\* a report left by an earlier run
StaleLine == Line("stale", 0, <<>>, <<>>)

\* the six header lines
Header ==
    [k \in 1..6 |->
        Line(<<"file", "type", "key", "rule", "columns", "rule">>[k], 0, <<>>, <<>>)]

\* the variant of the validation that accepts every position
TooFewNotesNever(n) == FALSE

\* len(notes) < 3, len(element.pitches) < 3
TooFewNotes(n) == n < 3

\* the validation loops: over every position of sounding_notes on the MIDI
\* path, over the chord elements on the MusicXML path
ValidationFails(ftype, snd) ==
    \E t \in DOMAIN snd :
        /\ ftype = "MIDI" \/ snd[t] # {}
        /\ TooFewNotes(Cardinality(snd[t]))

\* the variant of os.remove that leaves the file in place
os_remove_nothing(f) == f

\* os.remove(output_filename)
os_remove(f) == File(FALSE, <<>>)

\* parse_harmonic_output on the lines of a report
RECURSIVE ParseLines(_)
ParseLines(lines) ==
    IF lines = <<>> THEN <<>>
    ELSE (IF Head(lines).kind = "tick"
          THEN <<[tick |-> Head(lines).tick, function |-> Head(lines).function]>>
          ELSE <<>>) \o ParseLines(Tail(lines))

\* the two lines save_cadences_to_input_file appends
Trailer(lines) ==
    LET cadences == ScanPairs(get_chord_events(ParseLines(lines)), 1, <<>>, <<>>)
    IN  <<Line("strong", 0, <<>>, cadences[1]), Line("regular", 0, <<>>, cadences[2])>>

InitReport ==
    /\ JsbIdle
    /\ file_type \in {"MIDI", "MusicXML"}
    /\ key_mode \in {"major", "minor"}
    /\ sounding \in UNION {[1..n -> PositionSets] : n \in 0..MaxTicks}
    /\ rep_tick = 0
    /\ report \in {File(FALSE, <<>>), File(TRUE, <<StaleLine>>)}
    /\ rep_exit = "none"
    /\ rep_pc = "load"
    /\ ticks_per_beat = 0
    /\ CutIdle
    /\ SmpIdle
    /\ CadIdle
    /\ ChdIdle
    /\ LblIdle
    /\ RawIdle

\* loading the file raises; the generic handler prints and returns
RepLoadError ==
    /\ rep_pc = "load"
    /\ rep_exit' = "error"
    /\ rep_pc' = "returned"
    /\ UNCHANGED <<file_type, key_mode, sounding, rep_tick, report,
                   ticks_per_beat, cutVars, smpVars, cadVars, chdVars, lblVars,
                   rawVars, jsbVars>>

\* a minor key: `return False`
RepSkipMinor ==
    /\ rep_pc = "load"
    /\ key_mode = "minor"
    /\ rep_exit' = "minor"
    /\ rep_pc' = "returned"
    /\ UNCHANGED <<file_type, key_mode, sounding, rep_tick, report,
                   ticks_per_beat, cutVars, smpVars, cadVars, chdVars, lblVars,
                   rawVars, jsbVars>>

\* the notes are extracted
RepLoaded ==
    /\ rep_pc = "load"
    /\ key_mode # "minor"
    /\ rep_pc' = "validate"
    /\ UNCHANGED <<file_type, key_mode, sounding, rep_tick, report, rep_exit,
                   ticks_per_beat, cutVars, smpVars, cadVars, chdVars, lblVars,
                   rawVars, jsbVars>>

\* a position with fewer than 3 notes: `return False`
RepTooFew ==
    /\ rep_pc = "validate"
    /\ ValidationFails(file_type, sounding)
    /\ rep_exit' = "few_notes"
    /\ rep_pc' = "returned"
    /\ UNCHANGED <<file_type, key_mode, sounding, rep_tick, report,
                   ticks_per_beat, cutVars, smpVars, cadVars, chdVars, lblVars,
                   rawVars, jsbVars>>

\* open(output_filename, 'w') and the header
RepOpen ==
    /\ rep_pc = "validate"
    /\ ~ValidationFails(file_type, sounding)
    /\ report' = File(TRUE, Header)
    /\ rep_tick' = 0
    /\ rep_pc' = "write"
    /\ UNCHANGED <<file_type, key_mode, sounding, rep_exit,
                   ticks_per_beat, cutVars, smpVars, cadVars, chdVars, lblVars,
                   rawVars, jsbVars>>

\* a tick with a chord: its line is written
RepWriteLine(figure) ==
    /\ rep_pc = "write"
    /\ rep_tick < Len(sounding)
    /\ sounding[rep_tick + 1] # {}
    /\ report' = File(TRUE, Append(report.lines, Line("tick", rep_tick, figure, <<>>)))
    /\ rep_tick' = rep_tick + 1
    /\ UNCHANGED <<file_type, key_mode, sounding, rep_exit, rep_pc,
                   ticks_per_beat, cutVars, smpVars, cadVars, chdVars, lblVars,
                   rawVars, jsbVars>>

\* a tick whose chord_name stays 'Rest': the file is removed, `return`
RepRest ==
    /\ rep_pc = "write"
    /\ rep_tick < Len(sounding)
    /\ sounding[rep_tick + 1] = {}
    /\ report' = os_remove(report)
    /\ rep_exit' = "rest"
    /\ rep_pc' = "returned"
    /\ UNCHANGED <<file_type, key_mode, sounding, rep_tick,
                   ticks_per_beat, cutVars, smpVars, cadVars, chdVars, lblVars,
                   rawVars, jsbVars>>

\* range(total_16ths) is exhausted
RepDone ==
    /\ rep_pc = "write"
    /\ rep_tick = Len(sounding)
    /\ rep_exit' = "done"
    /\ rep_pc' = "returned"
    /\ UNCHANGED <<file_type, key_mode, sounding, rep_tick, report,
                   ticks_per_beat, cutVars, smpVars, cadVars, chdVars, lblVars,
                   rawVars, jsbVars>>

\* the batch driver (it takes .musicxml files only) after the call:
\* save_cadences_to_input_file if the report exists
RepDriver ==
    /\ rep_pc = "returned"
    /\ file_type = "MusicXML"
    /\ report' = IF report.exists
                 THEN File(TRUE, report.lines \o Trailer(report.lines))
                 ELSE report
    /\ rep_pc' = "driven"
    /\ UNCHANGED <<file_type, key_mode, sounding, rep_tick, rep_exit,
                   ticks_per_beat, cutVars, smpVars, cadVars, chdVars, lblVars,
                   rawVars, jsbVars>>

NextReport ==
    \/ RepLoadError
    \/ RepSkipMinor
    \/ RepLoaded
    \/ RepTooFew
    \/ RepOpen
    \/ \E figure \in Figures : RepWriteLine(figure)
    \/ RepRest
    \/ RepDone
    \/ RepDriver

SpecReport == InitReport /\ [][NextReport]_vars

\* C14: on the MIDI path, when some sampled 16th has fewer than 3 sounding
\* pitches the report file is never opened: it stays absent, or stays the
\* report an earlier run left; so a report is written only if every 16th has
\* at least 3.
C14_ValidateBeforeOpen ==
    (rep_pc # "idle" /\ file_type = "MIDI") =>
        /\ (\E t \in DOMAIN sounding : Cardinality(sounding[t]) < 3) =>
               /\ report \in {File(FALSE, <<>>), File(TRUE, <<StaleLine>>)}
               /\ rep_exit \notin {"done", "rest"}
        /\ (report.exists /\ report.lines # <<StaleLine>>) =>
               \A t \in DOMAIN sounding : Cardinality(sounding[t]) >= 3

\* the first 16th has three pitches, the second two: the call returned from
\* the validation and there is no report
C14_Witness ==
    /\ rep_pc = "returned"
    /\ file_type = "MIDI"
    /\ sounding = <<{60, 64, 67}, {60, 64}>>
    /\ rep_exit = "few_notes"
    /\ ~report.exists

\* C16: when the writing loop comes to a 16th whose chord name is Rest (the
\* key is major, the validation passes, loading does not fail), no report
\* file exists after save_harmonic_analysis has returned, and none after the
\* driver's step: the lines written are gone and no trailer is appended.
C16_RestDiscardsReport ==
    (/\ rep_pc \in {"returned", "driven"}
     /\ rep_exit # "error"
     /\ key_mode = "major"
     /\ ~ValidationFails(file_type, sounding)
     /\ \E t \in DOMAIN sounding : sounding[t] = {}) =>
        /\ rep_exit = "rest"
        /\ ~report.exists
        /\ report.lines = <<>>

\* a MusicXML input with a chord on the first 16th and nothing on the second:
\* one line was written, then the file was removed; the driver's step is done
C16_Witness ==
    /\ rep_pc = "driven"
    /\ file_type = "MusicXML"
    /\ sounding = <<{60, 64, 67}, {}>>
    /\ rep_tick = 1
    /\ rep_exit = "rest"
    /\ ~report.exists

-----------------------------------------------------------------------------
(* extract_cut_points and process_cadence_cuts_raw.                        *)

\* longest text between the brackets of the trailer
MaxNumsLen == 4

\* the characters of that text
NumsChars == {"4", "1", ",", " ", "x"}

\* s.split(sep), for a one-character separator: cur is the item being read
RECURSIVE SplitFrom(_, _, _)
SplitFrom(s, sep, cur) ==
    IF s = <<>> THEN <<cur>>
    ELSE IF Head(s) = sep THEN <<cur>> \o SplitFrom(Tail(s), sep, <<>>)
    ELSE SplitFrom(Tail(s), sep, Append(cur, Head(s)))

Split(s, sep) == SplitFrom(s, sep, <<>>)

\* s.strip()
RECURSIVE Strip(_)
Strip(s) ==
    IF s = <<>> THEN s
    ELSE IF Head(s) = " " THEN Strip(Tail(s))
    ELSE IF s[Len(s)] = " " THEN Strip(SubSeq(s, 1, Len(s) - 1))
    ELSE s

DigitChars == <<"0", "1", "2", "3", "4", "5", "6", "7", "8", "9">>

\* s.isdigit()
IsDigit(s) ==
    s # <<>> /\ \A i \in DOMAIN s : \E d \in DOMAIN DigitChars : DigitChars[d] = s[i]

\* int(s) of a string of digits
RECURSIVE int(_)
int(s) ==
    IF s = <<>> THEN 0
    ELSE 10 * int(SubSeq(s, 1, Len(s) - 1))
         + (CHOOSE d \in DOMAIN DigitChars : DigitChars[d] = s[Len(s)]) - 1

\* [int(n.strip()) for n in items if n.strip().isdigit()]
RECURSIVE DigitItems(_)
DigitItems(items) ==
    IF items = <<>> THEN <<>>
    ELSE (IF IsDigit(Strip(Head(items))) THEN <<int(Strip(Head(items)))>> ELSE <<>>)
         \o DigitItems(Tail(items))

extract_cut_points(a) ==
    IF ~a.readable THEN <<>>
    ELSE IF ~a.trailer THEN <<>>
    ELSE IF Strip(a.nums) = <<>> THEN <<>>
    ELSE DigitItems(Split(a.nums, ","))

\* the variant of the test that never finds the list empty
NoCutsNever(ticks) == FALSE

\* not cadence_ticks
NoCuts(ticks) == ticks = <<>>

InitRaw ==
    /\ JsbIdle
    /\ analysis \in
          {Analysis(FALSE, FALSE, <<>>), Analysis(TRUE, FALSE, <<>>)}
          \cup {Analysis(TRUE, TRUE, nums) :
                   nums \in UNION {[1..n -> NumsChars] : n \in 0..MaxNumsLen}}
    /\ cadence_ticks = <<>>
    /\ out_dir = FALSE
    /\ out_files = <<>>
    /\ raw_pc = "call"
    /\ ticks_per_beat = 0
    /\ CutIdle
    /\ SmpIdle
    /\ CadIdle
    /\ ChdIdle
    /\ LblIdle
    /\ RepIdle

\* cadence_ticks = extract_cut_points(analysis_text_path)
RawExtract ==
    /\ raw_pc = "call"
    /\ cadence_ticks' = extract_cut_points(analysis)
    /\ raw_pc' = "extracted"
    /\ UNCHANGED <<analysis, out_dir, out_files,
                   ticks_per_beat, cutVars, smpVars, cadVars, chdVars, lblVars,
                   repVars, jsbVars>>

\* `if not cadence_ticks: return`
RawNoCuts ==
    /\ raw_pc = "extracted"
    /\ NoCuts(cadence_ticks)
    /\ raw_pc' = "returned"
    /\ UNCHANGED <<analysis, cadence_ticks, out_dir, out_files,
                   ticks_per_beat, cutVars, smpVars, cadVars, chdVars, lblVars,
                   repVars, jsbVars>>

\* os.makedirs(output_dir, exist_ok=True)
RawMakeDirs ==
    /\ raw_pc = "extracted"
    /\ ~NoCuts(cadence_ticks)
    /\ out_dir' = TRUE
    /\ raw_pc' = "cutting"
    /\ UNCHANGED <<analysis, cadence_ticks, out_files,
                   ticks_per_beat, cutVars, smpVars, cadVars, chdVars, lblVars,
                   repVars, jsbVars>>

\* one iteration of `for tick in cadence_ticks`: cut_midi_at_16th writes the
\* stream truncated at tick
RawCut ==
    /\ raw_pc = "cutting"
    /\ Len(out_files) < Len(cadence_ticks)
    /\ out_files' = Append(out_files, cadence_ticks[Len(out_files) + 1])
    /\ UNCHANGED <<analysis, cadence_ticks, out_dir, raw_pc,
                   ticks_per_beat, cutVars, smpVars, cadVars, chdVars, lblVars,
                   repVars, jsbVars>>

\* the loop is exhausted
RawDone ==
    /\ raw_pc = "cutting"
    /\ Len(out_files) = Len(cadence_ticks)
    /\ raw_pc' = "returned"
    /\ UNCHANGED <<analysis, cadence_ticks, out_dir, out_files,
                   ticks_per_beat, cutVars, smpVars, cadVars, chdVars, lblVars,
                   repVars, jsbVars>>

NextRaw ==
    \/ RawExtract
    \/ RawNoCuts
    \/ RawMakeDirs
    \/ RawCut
    \/ RawDone

SpecRaw == InitRaw /\ [][NextRaw]_vars

\* C17: for a report that cannot be read, has no trailer, has an empty list
\* in the trailer, or yields no cadence tick otherwise, process_cadence_cuts_raw
\* goes from the extraction straight to its return: no output directory is
\* created and no truncated stream is written.
C17_NoCutsNoOp ==
    (/\ raw_pc \in {"cutting", "returned"}
     /\ \/ ~analysis.readable
        \/ ~analysis.trailer
        \/ \A i \in DOMAIN analysis.nums : analysis.nums[i] = " "
        \/ cadence_ticks = <<>>) =>
        /\ raw_pc = "returned"
        /\ cadence_ticks = <<>>
        /\ ~out_dir
        /\ out_files = <<>>

\* the call has returned for a report whose trailer lists nothing that is a
\* number
C17_Witness ==
    /\ raw_pc = "returned"
    /\ analysis = Analysis(TRUE, TRUE, <<"x", ",", " ">>)
    /\ ~out_dir
    /\ out_files = <<>>

-----------------------------------------------------------------------------
(* _find_chord_type on its own: a candidate root and a set of pitch        *)
(* classes of any size (through _notes_to_chord it only sees sets of at    *)
(* most 4).                                                                *)

\* most pitch classes of a set given to _find_chord_type
MaxPitchClasses == 7

InitChordType ==
    /\ JsbIdle
    /\ pc \in {s \in SUBSET (0..11) : s # {} /\ Cardinality(s) <= MaxPitchClasses}
    /\ root_pc \in pc
    /\ notes = {}
    /\ bass_pc = 0
    /\ roots = <<>>
    /\ chord = None
    /\ label = None
    /\ chd_pc = "find"
    /\ is_major = FALSE
    /\ ticks_per_beat = 0
    /\ CutIdle
    /\ SmpIdle
    /\ CadIdle
    /\ LblIdle
    /\ RepIdle
    /\ RawIdle

\* chord := _find_chord_type(r, pc)
FindChordType ==
    /\ chd_pc = "find"
    /\ chord' = find_chord_type(root_pc, pc)
    /\ chd_pc' = "found"
    /\ UNCHANGED <<is_major, notes, pc, bass_pc, roots, root_pc, label,
                   ticks_per_beat, cutVars, smpVars, cadVars, lblVars, repVars,
                   rawVars, jsbVars>>

NextChordType ==
    \/ FindChordType

SpecChordType == InitChordType /\ [][NextChordType]_vars

\* the tensions whose condition holds for the intervals o above a root, in
\* the order b9, #11, b13, as one string
TensionSuffix(o) ==
    (IF 1 \in o THEN <<"b", "9">> ELSE <<>>)
    \o (IF 6 \in o /\ (3 \in o \/ 4 \in o) /\ 7 \in o THEN <<"#", "1", "1">> ELSE <<>>)
    \o (IF 8 \in o /\ (10 \in o \/ 11 \in o) THEN <<"b", "1", "3">> ELSE <<>>)

\* C21: the label found for a root that matches the major or the minor
\* pattern is the root name, the quality (maj7, 7 or nothing; m or m7) and
\* then exactly the tensions whose condition holds, in the order b9, #11, b13;
\* the label found for a root that matches the diminished or the augmented
\* pattern carries no tension.
C21_TensionSuffix ==
    chd_pc = "found" =>
        LET o == Offsets(root_pc, pc)
            name == NoteName(root_pc)
        IN  /\ Pattern(root_pc, pc) = "major" =>
                chord = name
                        \o (IF 11 \in o THEN <<"m", "a", "j", "7">>
                            ELSE IF 10 \in o THEN <<"7">> ELSE <<>>)
                        \o TensionSuffix(o)
            /\ Pattern(root_pc, pc) = "minor" =>
                chord = name \o <<"m">> \o (IF 10 \in o THEN <<"7">> ELSE <<>>)
                        \o TensionSuffix(o)
            /\ Pattern(root_pc, pc) \in {"dim", "aug"} =>
                /\ chord \in {name \o <<"d", "i", "m">>, name \o <<"d", "i", "m", "7">>,
                              name \o <<"m", "7", "b", "5">>, name \o <<"a", "u", "g">>}
                /\ ~Contains(chord, <<"b", "9">>)
                /\ ~Contains(chord, <<"#", "1", "1">>)
                /\ ~Contains(chord, <<"b", "1", "3">>)

\* a dominant seventh on C with the minor 2nd, the diminished 5th and the
\* augmented 5th: all three tensions
C21_Witness ==
    /\ chd_pc = "found"
    /\ root_pc = 0
    /\ pc = {0, 1, 4, 6, 7, 8, 10}
    /\ chord = <<"C", "7", "b", "9", "#", "1", "1", "b", "1", "3">>

\* C22: for a set of 1 to 4 pitches in which no pitch class matches a
\* pattern, and for every set of 1 to 4 pitches of one pitch class, the label
\* is exactly the name of the pitch class of the lowest pitch (no quality, no
\* slash), and _is_major_chord is true of it.
C22_FallbackIsMajor ==
    (chd_pc \in {"returned", "read"} /\ notes # {} /\ Cardinality(notes) <= 4) =>
        LET pcs == {n % 12 : n \in notes}
        IN  ((\A rt \in pcs : Pattern(rt, pcs) = "none") \/ Cardinality(pcs) = 1) =>
                /\ label = NoteName(min(notes) % 12)
                /\ chd_pc = "read" => is_major

\* two G sharps an octave apart: the label G# has been read downstream
C22_Witness ==
    /\ chd_pc = "read"
    /\ notes = {56, 68}
    /\ label = <<"G", "#">>
    /\ is_major

\* the labels on the root rt that a set of at most 4 pitches can have: a
\* triad alone, with b9 or with #11, or a seventh, diminished, augmented or
\* suspended chord with no tension
SmallSetLabels(rt) ==
    {NoteName(rt) \o q \o t :
         q \in {<<>>, <<"m">>}, t \in {<<>>, <<"b", "9">>, <<"#", "1", "1">>}}
    \cup {NoteName(rt) \o q :
             q \in {<<"7">>, <<"m", "a", "j", "7">>, <<"m", "7">>,
                    <<"d", "i", "m">>, <<"d", "i", "m", "7">>, <<"m", "7", "b", "5">>,
                    <<"a", "u", "g">>, <<"s", "u", "s", "2">>, <<"s", "u", "s", "4">>,
                    <<"s", "u", "s", "2", "7">>, <<"s", "u", "s", "4", "7">>}}

\* C29: for a set of 1 to 4 pitches, the label returned is, before its slash,
\* the root name and quality followed by nothing, by b9 or by #11; b13 never
\* appears, two tensions never appear together, and a 7, maj7 or m7 label
\* carries no tension.
C29_SmallSetTensions ==
    (chd_pc \in {"returned", "read"} /\ notes # {} /\ Cardinality(notes) <= 4) =>
        /\ ~Contains(label, <<"b", "1", "3">>)
        /\ \E rt \in 0..11 : chord_base(label) \in SmallSetLabels(rt)
        /\ chord # None => chord \in SmallSetLabels(root_pc)

\* a C major triad with the minor 2nd
C29_Witness ==
    /\ chd_pc = "returned"
    /\ notes = {60, 61, 64, 67}
    /\ label = <<"C", "b", "9">>

-----------------------------------------------------------------------------
(* Further properties of _get_sounding_notes_per_16th.                     *)

\* the places in the sorted event list of the events of pitch p that are
\* replayed for 16th position k (those at ticks <= k times ticks_per_beat / 4)
Replayed(p, k) ==
    {j \in DOMAIN events : events[j].n = p /\ 4 * events[j].t <= k * ticks_per_beat}

\* C23: replaying is by set: after the replay for a 16th position a pitch is
\* in the active set exactly when the last event replayed for it is an On,
\* however many Ons and Offs came before (an On for a sounding pitch and an
\* Off for a silent one change nothing); after two Ons and then one Off of a
\* pitch the pitch is not in the set.
C23_ReplayBySet ==
    smp_pc = "returned" =>
        \A k \in DOMAIN result : \A p \in Pitches :
            LET idx == Replayed(p, k - 1)
            IN  /\ p \in Range(result[k]) <=>
                       /\ idx # {}
                       /\ events[CHOOSE j \in idx : \A i \in idx : i <= j].typ = "on"
                /\ (\E j1, j2, j3 \in idx :
                       /\ idx = {j1, j2, j3} /\ j1 < j2 /\ j2 < j3
                       /\ events[j1].typ = "on" /\ events[j2].typ = "on"
                       /\ events[j3].typ = "off") => p \notin Range(result[k])

\* two Ons of pitch 60 and then one Off are replayed for the second 16th, and
\* 60 is not among its notes
C23_Witness ==
    /\ smp_pc = "returned"
    /\ Len(result) >= 2
    /\ LET idx == Replayed(60, 1)
       IN  /\ Cardinality(idx) = 3
           /\ \E j1, j2, j3 \in idx :
                 /\ j1 < j2 /\ j2 < j3
                 /\ events[j1].typ = "on" /\ events[j2].typ = "on"
                 /\ events[j3].typ = "off"
    /\ 60 \notin Range(result[2])

-----------------------------------------------------------------------------
(* Further properties of cut_midi_at_16th: the boundary and the end of     *)
(* track.                                                                  *)

\* C24: every Off or meta message of the input track that lies exactly on the
\* cut is in the output track at absolute tick cut_tick (the sum of the output
\* deltas up to it), also after a dropped On on the cut that carried the
\* delta reaching the cut.
C24_KeptOnCutTick ==
    cut_pc \in {"loop", "done"} =>
        LET at == AbsTicks(track)
        IN  \A i \in DOMAIN track :
                (at[i] = cut_threshold_ticks /\ ~IsNoteOn(track[i])) =>
                    /\ OutIndex(at, i) \in DOMAIN new_track
                    /\ AbsTick(new_track, OutIndex(at, i)) = cut_threshold_ticks

-----------------------------------------------------------------------------
(* save_cadences_to_input_file on a report, then process_cadence_cuts_raw  *)
(* on the report it leaves.  The report is read as text: its lines may sit *)
(* at any strictly increasing ticks.                                       *)

\* most tick lines of the report
MaxLines == 5

\* the distance of a tick line from the line before it
Gaps == {1, 4, 8}

\* the function labels of the tick lines
SaveFunctions == {<<"V">>, <<"I">>}

\* the variant of str that keeps the last digit only
str_units(n) == <<DigitChars[(n % 10) + 1]>>

\* str(n) of a non-negative integer, as an f-string formats a list item
RECURSIVE str(_)
str(n) ==
    IF n < 10 THEN <<DigitChars[n + 1]>>
    ELSE str(n \div 10) \o <<DigitChars[(n % 10) + 1]>>

\* ", ".join of the formatted items
RECURSIVE JoinItems(_)
JoinItems(lst) ==
    IF lst = <<>> THEN <<>>
    ELSE IF Len(lst) = 1 THEN str(lst[1])
    ELSE str(lst[1]) \o <<",", " ">> \o JoinItems(Tail(lst))

\* f"{strong_cadences}": the text of a list of integers
FormatList(lst) == <<"[">> \o JoinItems(lst) \o <<"]">>

\* group 1 of ".*\[(.*?)\]" on a text that has a bracket pair: from the last
\* "[" that a "]" follows, up to the first "]" after it
Group1(txt) ==
    LET opens == {i \in DOMAIN txt :
                     txt[i] = "[" /\ \E j \in DOMAIN txt : j > i /\ txt[j] = "]"}
        lb == CHOOSE i \in opens : \A j \in opens : j <= i
        rb == min({j \in DOMAIN txt : j > lb /\ txt[j] = "]"})
    IN  SubSeq(txt, lb + 1, rb - 1)

\* open(analysis_text_path) and re.search(r"Strong Cadences.*\[(.*?)\]"):
\* the first line that starts the trailer's strong list
ReadAnalysis(f) ==
    IF ~f.exists THEN Analysis(FALSE, FALSE, <<>>)
    ELSE LET hits == {i \in DOMAIN f.lines : f.lines[i].kind = "strong"}
         IN  IF hits = {} THEN Analysis(TRUE, FALSE, <<>>)
             ELSE Analysis(TRUE, TRUE,
                           Group1(FormatList(f.lines[min(hits)].list)))

InitSave ==
    /\ JsbIdle
    /\ report = File(TRUE, Header)
    /\ timeline = <<>>
    /\ runs = 0
    /\ chord_events = <<>>
    /\ strong_cadences = <<>>
    /\ regular_cadences = <<>>
    /\ cad_pc = "input"
    /\ analysis = Analysis(FALSE, FALSE, <<>>)
    /\ cadence_ticks = <<>>
    /\ out_dir = FALSE
    /\ out_files = <<>>
    /\ raw_pc = "idle"
    /\ file_type = "MIDI"
    /\ key_mode = "major"
    /\ sounding = <<>>
    /\ rep_tick = 0
    /\ rep_exit = "done"
    /\ rep_pc = "returned"
    /\ ticks_per_beat = 0
    /\ CutIdle
    /\ SmpIdle
    /\ ChdIdle
    /\ LblIdle

\* the report's next tick line "tick | chord | function"
SaveTickLine(func, gap) ==
    /\ cad_pc = "input"
    /\ runs < MaxLines
    /\ LET tick == IF runs = 0 THEN gap - 1
                   ELSE report.lines[Len(report.lines)].tick + gap
       IN  report' = File(TRUE, Append(report.lines, Line("tick", tick, func, <<>>)))
    /\ runs' = runs + 1
    /\ UNCHANGED <<timeline, chord_events, strong_cadences, regular_cadences,
                   cad_pc, file_type, key_mode, sounding, rep_tick, rep_exit,
                   rep_pc, ticks_per_beat, cutVars, smpVars, chdVars, lblVars,
                   rawVars, jsbVars>>

\* save_cadences_to_input_file: find_cadences on the content read, then the
\* content and the two trailer lines written back
SaveCadences ==
    /\ cad_pc = "input"
    /\ LET tl == ParseLines(report.lines)
           evs == get_chord_events(tl)
           found == ScanPairs(evs, 1, <<>>, <<>>)
       IN  /\ timeline' = tl
           /\ chord_events' = evs
           /\ strong_cadences' = found[1]
           /\ regular_cadences' = found[2]
    /\ report' = File(TRUE, report.lines \o Trailer(report.lines))
    /\ cad_pc' = "saved"
    /\ raw_pc' = "call"
    /\ UNCHANGED <<runs, file_type, key_mode, sounding, rep_tick, rep_exit,
                   rep_pc, analysis, cadence_ticks, out_dir, out_files,
                   ticks_per_beat, cutVars, smpVars, chdVars, lblVars,
                   jsbVars>>

\* cadence_ticks = extract_cut_points(analysis_text_path) on the saved report
SaveExtract ==
    /\ cad_pc = "saved"
    /\ raw_pc = "call"
    /\ analysis' = ReadAnalysis(report)
    /\ cadence_ticks' = extract_cut_points(ReadAnalysis(report))
    /\ raw_pc' = "extracted"
    /\ UNCHANGED <<out_dir, out_files, ticks_per_beat, cutVars, smpVars,
                   cadVars, chdVars, lblVars, repVars, jsbVars>>

NextSave ==
    \/ \E func \in SaveFunctions, gap \in Gaps : SaveTickLine(func, gap)
    \/ SaveCadences
    \/ SaveExtract
    \/ RawNoCuts
    \/ RawMakeDirs
    \/ RawCut
    \/ RawDone

SpecSave == InitSave /\ [][NextSave]_vars

\* C26: after save_cadences_to_input_file, extract_cut_points returns the
\* strong list of find_cadences for the report, in its order; the streams
\* process_cadence_cuts_raw writes are cut at these ticks in this order, and
\* none is cut at a regular cadence tick.
C26_CutsAreStrong ==
    (cad_pc = "saved" /\ raw_pc \in {"extracted", "cutting", "returned"}) =>
        /\ cadence_ticks = strong_cadences
        /\ Len(out_files) <= Len(strong_cadences)
        /\ out_files = SubSeq(strong_cadences, 1, Len(out_files))
        /\ raw_pc = "returned" => out_files = strong_cadences
        /\ \A i \in DOMAIN out_files : out_files[i] \notin Range(regular_cadences)

\* a report with a regular cadence and a strong cadence at a tick of two
\* digits: the cuts made are the strong list
C26_Witness ==
    /\ cad_pc = "saved"
    /\ raw_pc = "returned"
    /\ regular_cadences # <<>>
    /\ \E i \in DOMAIN strong_cadences : strong_cadences[i] >= 10
    /\ out_files = strong_cadences

\* the sum of the durations of the runs
RECURSIVE SumDurations(_)
SumDurations(evs) ==
    IF evs = <<>> THEN 0 ELSE Head(evs).duration + SumDurations(Tail(evs))

StrictlyIncreasingTicks(tl) ==
    \A i \in 1..(Len(tl) - 1) : tl[i].tick < tl[i + 1].tick

StrictlyIncreasing(lst) ==
    \A i \in 1..(Len(lst) - 1) : lst[i] < lst[i + 1]

\* C27: for a non-empty timeline with strictly increasing ticks the runs of
\* get_chord_events partition it: the first run starts at the first tick,
\* each run ends where the next starts, every duration is at least 1,
\* adjacent runs differ in label, and the durations sum to
\* last_tick - first_tick + 1.
C27_RunsPartition ==
    (cad_pc = "saved" /\ timeline # <<>> /\ StrictlyIncreasingTicks(timeline)) =>
        /\ chord_events # <<>>
        /\ chord_events[1].start_tick = timeline[1].tick
        /\ \A i \in 1..(Len(chord_events) - 1) :
              /\ chord_events[i].start_tick + chord_events[i].duration
                    = chord_events[i + 1].start_tick
              /\ chord_events[i].function # chord_events[i + 1].function
        /\ \A i \in DOMAIN chord_events : chord_events[i].duration >= 1
        /\ SumDurations(chord_events)
              = timeline[Len(timeline)].tick - timeline[1].tick + 1

\* a timeline with a gap between its ticks, not starting at tick 0, compressed
\* into several runs, one of them of several lines
C27_Witness ==
    /\ cad_pc = "saved"
    /\ timeline # <<>>
    /\ timeline[1].tick > 0
    /\ ~ConsecutiveTicks(timeline)
    /\ Len(chord_events) >= 3
    /\ Len(chord_events) < Len(timeline)

\* C28: for a timeline with strictly increasing ticks each of the two lists
\* of find_cadences is strictly increasing, no tick is in both, and every
\* listed tick is divisible by 4 and starts a run other than the first.
C28_CadenceLists ==
    (cad_pc = "saved" /\ StrictlyIncreasingTicks(timeline)) =>
        /\ StrictlyIncreasing(strong_cadences)
        /\ StrictlyIncreasing(regular_cadences)
        /\ Range(strong_cadences) \cap Range(regular_cadences) = {}
        /\ \A t \in Range(strong_cadences) \cup Range(regular_cadences) :
              /\ t % 4 = 0
              /\ \E i \in 2..Len(chord_events) : chord_events[i].start_tick = t

\* a timeline with a gap between its ticks that has two strong cadences
C28_Witness ==
    /\ cad_pc = "saved"
    /\ ~ConsecutiveTicks(timeline)
    /\ Len(strong_cadences) >= 2

-----------------------------------------------------------------------------
(* jsb_json_to_midi on a file holding one sequence.  One step of the model *)
(* is one iteration of `for time_step in sequence`; the tempo value of the *)
(* first message is left out.                                              *)

\* most time steps of the sequence
MaxSteps == 4

\* the notes of the time steps: below the piano range, and two inside it
JsbNotes == {20, 60, 64}

Resolutions == {"quarter", "8th", "16th"}

\* beats_per_step, in quarters of a beat
beats_per_step_x4 == ("quarter" :> 4) @@ ("8th" :> 2) @@ ("16th" :> 1)

\* int(480 * beats_per_step[resolution])
step_duration_ticks(res) == (480 * beats_per_step_x4[res]) \div 4

\* set(note for note in time_step if 21 <= note <= 108)
time_step_set(time_step) == {note \in time_step : 21 <= note /\ note <= 108}

\* `for note in sorted(ns): track.append(Message(ty, note, velocity, time=t));
\* current_time = 0`: the messages appended, the first carrying t
Appended(ty, velocity, ns, t) ==
    [i \in 1..Cardinality(ns) |->
        Message(ty, 0, sorted(ns)[i], velocity, IF i = 1 THEN t ELSE 0)]

InitJsb ==
    /\ sequence \in UNION {[1..n -> SUBSET JsbNotes] : n \in 0..MaxSteps}
    /\ resolution \in Resolutions
    /\ jsb_step = 0
    /\ jsb_active_notes = {}
    /\ jsb_current_time = 0
    /\ jsb_track = <<MetaMessage("set_tempo", 0)>>
    /\ jsb_pc = "steps"
    /\ ticks_per_beat = 480
    /\ CutIdle
    /\ SmpIdle
    /\ CadIdle
    /\ ExtIdle

\* one iteration of `for time_step in sequence`
JsbTimeStep ==
    /\ jsb_pc = "steps"
    /\ jsb_step < Len(sequence)
    /\ LET now == time_step_set(sequence[jsb_step + 1])
           notes_off == jsb_active_notes \ now
           notes_on == now \ jsb_active_notes
           offs == Appended("note_off", 0, notes_off, jsb_current_time)
           ons == Appended("note_on", 64, notes_on,
                           IF notes_off = {} THEN jsb_current_time ELSE 0)
       IN  /\ jsb_track' = jsb_track \o offs \o ons
           /\ jsb_active_notes' = now
    /\ jsb_current_time' = step_duration_ticks(resolution)
    /\ jsb_step' = jsb_step + 1
    /\ UNCHANGED <<sequence, resolution, jsb_pc, ticks_per_beat, cutVars, smpVars,
                   cadVars, extVars>>

\* the sequence is exhausted: the notes still active are closed and the file
\* is saved
JsbSave ==
    /\ jsb_pc = "steps"
    /\ jsb_step = Len(sequence)
    /\ jsb_track' = jsb_track
                    \o Appended("note_off", 0, jsb_active_notes, jsb_current_time)
    /\ jsb_current_time' = IF jsb_active_notes = {} THEN jsb_current_time ELSE 0
    /\ jsb_pc' = "saved"
    /\ UNCHANGED <<sequence, resolution, jsb_step, jsb_active_notes,
                   ticks_per_beat, cutVars, smpVars, cadVars, extVars>>

NextJsb ==
    \/ JsbTimeStep
    \/ JsbSave

SpecJsb == InitJsb /\ [][NextJsb]_vars

\* the notes sounding in a track at a tick: the messages up to the tick replayed
RECURSIVE SoundingAt(_, _, _)
SoundingAt(tr, i, tick) ==
    IF i = 0 THEN {}
    ELSE LET before == SoundingAt(tr, i - 1, tick)
         IN  IF AbsTick(tr, i) > tick THEN before
             ELSE IF IsNoteOn(tr[i]) THEN before \cup {tr[i].note}
             ELSE IF IsNoteOff(tr[i]) THEN before \ {tr[i].note}
             ELSE before

\* C30: in the track written for one sequence, the note events that realise
\* time step k lie at absolute tick k * step_duration_ticks, also after time
\* steps that caused no event; the track sampled at k * step_duration_ticks
\* holds the notes of step k within 21..108.
C30_StepsOnGrid ==
    jsb_pc = "saved" =>
        \A k \in 0..(Len(sequence) - 1) :
            LET at == k * step_duration_ticks(resolution)
                now == time_step_set(sequence[k + 1])
                before == IF k = 0 THEN {} ELSE time_step_set(sequence[k])
            IN  /\ \A note \in now \ before :
                      \E i \in DOMAIN jsb_track :
                          /\ IsNoteOn(jsb_track[i]) /\ jsb_track[i].note = note
                          /\ AbsTick(jsb_track, i) = at
                /\ \A note \in before \ now :
                      \E i \in DOMAIN jsb_track :
                          /\ IsNoteOff(jsb_track[i]) /\ jsb_track[i].note = note
                          /\ AbsTick(jsb_track, i) = at
                /\ SoundingAt(jsb_track, Len(jsb_track), at) = now

====
